---- MODULE Spec2Model ----
(***************************************************************************)
(* A model of the calculation engine of the Solar Oasis calculator         *)
(* (src/App.tsx): the tariff calculator, the tier editor, the bill ledger  *)
(* with its seasonal extrapolation, the seasonal analyser, the system      *)
(* sizer and the 25-year financial simulation.                             *)
(*                                                                         *)
(* Number representation.                                                  *)
(*   - kWh quantities typed by the user are integers (the entry regex      *)
(*     admits digits only), and Math.round makes every estimate an integer.*)
(*   - A rate is held in hundredths of AED per kWh (0.38 -> 38); a bill    *)
(*     amount is therefore held in hundredths of AED.                      *)
(*   - A seasonal factor is held in hundredths (0.75 -> 75).               *)
(*   - Quotients are exact rationals where the code uses doubles; a        *)
(*     number of the sizer is a rational, an infinity or NaN, with the     *)
(*     IEEE-754 rules for division by zero and for 0 * Infinity.           *)
(*   - The values typed into numeric inputs are non-negative numbers.      *)
(*                                                                         *)
(* Scheduling.  A handler runs atomically.  The effects of a render run in *)
(* one pass, in declaration order, each on the values of that render; a    *)
(* handler runs only when no effect is pending.                            *)
(***************************************************************************)
EXTENDS Integers, Sequences, FiniteSets, TLC

VARIABLES
    authority,            \* 'DEWA' | 'FEWA'
    batteryEnabled,       \* boolean
    bills,                \* the ledger: a sequence of Bill records
    rateStructure,        \* 'flat' | 'tiered'
    electricityRate,      \* flat rate, hundredths of AED per kWh
    tiers,                \* sequence of Tier records
    daytimeConsumption,   \* percent
    peakSunHours,         \* tenths of an hour
    systemEfficiency,     \* percent
    panelWattage,         \* watts
    seasonalAnalysis,     \* derived snapshot
    systemRecommendation, \* derived snapshot
    seenDeps,             \* dependency values at the last run of each effect
    lastOp,               \* name of the handler or effect pass that produced this state
    lastInput,            \* the entry-box text read by addBills, when it was the last handler
    ops,                  \* number of handler invocations so far
    argConsumption,       \* argument of the last direct tariff-calculator call
    resAmount,            \* its result
    argYear,              \* year argument of the last direct call of the escalated calculator
    resEscalated,         \* its result
    systemCost,           \* text of the system-cost input ('' is << >>)
    financialAnalysis,    \* derived snapshot
    sim                   \* position and locals of the financial effect run step by step

configVars == << authority, batteryEnabled >>
tariffVars == << rateStructure, electricityRate, tiers >>
sizingVars == << daytimeConsumption, peakSunHours, systemEfficiency, panelWattage >>
derivedVars == << seasonalAnalysis, systemRecommendation, financialAnalysis, seenDeps >>
callVars == << argConsumption, resAmount, argYear, resEscalated >>
roiVars == << systemCost, sim >>

vars == << configVars, bills, tariffVars, sizingVars, derivedVars, callVars,
          roiVars, lastOp, lastInput, ops >>

(***************************************************************************)
(* Bounds of the model (not program constants).                            *)
(***************************************************************************)
MaxOps == 4
MaxTiers == 5

(***************************************************************************)
(* Program constants.                                                      *)
(***************************************************************************)
\* The unbounded sentinel of Tier.to (JavaScript Infinity). User-typed
\* boundaries are non-negative, so -1 never collides with a finite bound.
Infinity == -1

\* addTier opens the new top band this many units above the old top's `from`.
TierStep == 2000

\* addTier prices the new top band 0.05 above the old top's rate.
TierRateStep == 5

\* The one element of a singleton set: { e(v) : v \in {x} } binds v to the
\* value of x once, the way a `const` of the source does.
The(S) == CHOOSE x \in S : TRUE

Min(a, b) == IF a <= b THEN a ELSE b
Max(a, b) == IF a >= b THEN a ELSE b

months ==
    << "January", "February", "March", "April", "May", "June",
       "July", "August", "September", "October", "November", "December" >>

DefaultTiers ==
    << [from |-> 0,    to |-> 2000,     rate |-> 30],
       [from |-> 2001, to |-> 4000,     rate |-> 38],
       [from |-> 4001, to |-> 6000,     rate |-> 44],
       [from |-> 6001, to |-> Infinity, rate |-> 50] >>

(***************************************************************************)
(* Tariff calculator.                                                      *)
(***************************************************************************)
\* Variant of TierLoop whose band starts at `from` where the code starts it
\* at `from - 1`.
RECURSIVE TierLoopFromStart(_, _, _, _)
TierLoopFromStart(ts, i, remainingConsumption, totalAmount) ==
    IF i > Len(ts) \/ remainingConsumption <= 0
    THEN totalAmount
    ELSE LET tier == ts[i]
             tierStart == tier.from
             tierConsumption ==
                 IF tier.to = Infinity
                 THEN remainingConsumption
                 ELSE Min(remainingConsumption, tier.to - tierStart)
         IN  TierLoopFromStart(ts, i + 1,
                               remainingConsumption - tierConsumption,
                               totalAmount + Max(0, tierConsumption) * tier.rate)

\* Variant of TierLoop that bills the whole consumption at the rate of the
\* band it ends in.
RECURSIVE TierLoopSlab(_, _, _, _)
TierLoopSlab(ts, i, remainingConsumption, totalAmount) ==
    IF i > Len(ts) \/ remainingConsumption <= 0
    THEN totalAmount
    ELSE IF ts[i].to = Infinity \/ remainingConsumption <= ts[i].to
         THEN remainingConsumption * ts[i].rate
         ELSE TierLoopSlab(ts, i + 1, remainingConsumption, totalAmount)

\* Variant of TierLoop that bills everything left in the last tier, bounded
\* or not.
RECURSIVE TierLoopOpenTop(_, _, _, _)
TierLoopOpenTop(ts, i, remainingConsumption, totalAmount) ==
    IF i > Len(ts) \/ remainingConsumption <= 0
    THEN totalAmount
    ELSE LET tier == ts[i]
             tierStart == IF tier.from > 0 THEN tier.from - 1 ELSE 0
             tierConsumption ==
                 IF tier.to = Infinity \/ i = Len(ts)
                 THEN remainingConsumption
                 ELSE Min(remainingConsumption, tier.to - tierStart)
         IN  TierLoopOpenTop(ts, i + 1,
                             remainingConsumption - tierConsumption,
                             totalAmount + Max(0, tierConsumption) * tier.rate)

\* The `for (const tier of tiers)` loop of calculateBillAmount: tiers are
\* walked in the order they are stored.
RECURSIVE TierLoop(_, _, _, _)
TierLoop(ts, i, remainingConsumption, totalAmount) ==
    IF i > Len(ts) \/ remainingConsumption <= 0
    THEN totalAmount
    ELSE LET tier == ts[i]
             tierStart == IF tier.from > 0 THEN tier.from - 1 ELSE 0
             tierConsumption ==
                 IF tier.to = Infinity
                 THEN remainingConsumption
                 ELSE Min(remainingConsumption, tier.to - tierStart)
         IN  TierLoop(ts, i + 1,
                      remainingConsumption - tierConsumption,
                      totalAmount + Max(0, tierConsumption) * tier.rate)

\* calculateBillAmount with its closure variables made explicit.
BillAmount(consumption, rs, rate, ts) ==
    IF consumption <= 0 THEN 0
    ELSE IF rs = "flat" THEN consumption * rate
    ELSE TierLoop(ts, 1, consumption, 0)

calculateBillAmount(consumption) ==
    BillAmount(consumption, rateStructure, electricityRate, tiers)

(***************************************************************************)
(* Tier editor.                                                            *)
(***************************************************************************)
AddTierResult(ts) ==
    LET lastTier == ts[Len(ts)]
        newFrom == IF lastTier.to = Infinity
                   THEN lastTier.from + TierStep
                   ELSE lastTier.to + 1
    IN  SubSeq(ts, 1, Len(ts) - 1) \o
        << [from |-> lastTier.from, to |-> newFrom - 1, rate |-> lastTier.rate],
           [from |-> newFrom, to |-> Infinity, rate |-> lastTier.rate + TierRateStep] >>

\* index is 1-based here (the source's index + 1).
UpdateTierResult(ts, index, field, numValue) ==
    LET patched == IF field = "to" /\ index < Len(ts)
                   THEN [ts EXCEPT ![index + 1].from = numValue + 1]
                   ELSE ts
    IN  CASE field = "from" -> [patched EXCEPT ![index].from = numValue]
          [] field = "to"   -> [patched EXCEPT ![index].to = numValue]
          [] field = "rate" -> [patched EXCEPT ![index].rate = numValue]

RemoveAt(s, index) ==
    SubSeq(s, 1, index - 1) \o SubSeq(s, index + 1, Len(s))

RemoveTierResult(ts, index) ==
    IF Len(ts) > 1
    THEN LET newTiers == RemoveAt(ts, index)
         IN  IF Len(newTiers) > 0 /\ index > 1 /\ index - 1 <= Len(newTiers)
             THEN [newTiers EXCEPT ![index - 1].to = Infinity]
             ELSE newTiers
    ELSE ts

(***************************************************************************)
(* Text of the bill-entry box.  A text is a sequence of one-character      *)
(* strings, so that splitting, trimming, the entry regex, toLowerCase,     *)
(* startsWith and parseFloat are computed as the code computes them.       *)
(***************************************************************************)
UpperLetters ==
    << "A", "B", "C", "D", "E", "F", "G", "H", "I", "J", "K", "L", "M",
       "N", "O", "P", "Q", "R", "S", "T", "U", "V", "W", "X", "Y", "Z" >>

LowerLetters ==
    << "a", "b", "c", "d", "e", "f", "g", "h", "i", "j", "k", "l", "m",
       "n", "o", "p", "q", "r", "s", "t", "u", "v", "w", "x", "y", "z" >>

DigitChars == << "0", "1", "2", "3", "4", "5", "6", "7", "8", "9" >>

Range(s) == { s[i] : i \in 1..Len(s) }

DigitSet == Range(DigitChars)
UpperSet == Range(UpperLetters)

\* \w of the entry regex: letters, digits and the underscore.
WordSet == UpperSet \cup Range(LowerLetters) \cup DigitSet \cup {"_"}

IsDigit(c) == c \in DigitSet

IsWordChar(c) == c \in WordSet

\* \s of the entry regex and of trim().
IsSpace(c) == c \in {" ", "\t"}

\* The separators of input.split(/[,;\n]+/).
IsSeparator(c) == c \in {",", ";", "\n"}

toLowerCase(c) ==
    IF c \in UpperSet
    THEN LowerLetters[CHOOSE i \in 1..Len(UpperLetters) : UpperLetters[i] = c]
    ELSE c

LowerText(t) == [i \in 1..Len(t) |-> toLowerCase(t[i])]

\* The spelling of each month of `months`, in the same order.
monthChars ==
    << << "J", "a", "n", "u", "a", "r", "y" >>,
       << "F", "e", "b", "r", "u", "a", "r", "y" >>,
       << "M", "a", "r", "c", "h" >>,
       << "A", "p", "r", "i", "l" >>,
       << "M", "a", "y" >>,
       << "J", "u", "n", "e" >>,
       << "J", "u", "l", "y" >>,
       << "A", "u", "g", "u", "s", "t" >>,
       << "S", "e", "p", "t", "e", "m", "b", "e", "r" >>,
       << "O", "c", "t", "o", "b", "e", "r" >>,
       << "N", "o", "v", "e", "m", "b", "e", "r" >>,
       << "D", "e", "c", "e", "m", "b", "e", "r" >> >>

\* m.toLowerCase() of every month.
monthsLower == [i \in 1..Len(months) |-> LowerText(monthChars[i])]

startsWith(t, prefix) ==
    /\ Len(prefix) <= Len(t)
    /\ \A i \in 1..Len(prefix) : t[i] = prefix[i]

\* months.findIndex(m => m.toLowerCase().startsWith(monthLower)), 1-based;
\* 0 stands for the source's -1.
findMonthIndex(monthLower) ==
    LET hits == { i \in 1..Len(months) : startsWith(monthsLower[i], monthLower) }
    IN  IF hits = {} THEN 0 ELSE CHOOSE i \in hits : \A j \in hits : i <= j

\* months.indexOf(month), 1-based.
monthIndexOf(month) == CHOOSE i \in 1..Len(months) : months[i] = month


\* parseFloat of a string of decimal digits.
RECURSIVE parseDigits(_)
parseDigits(ds) ==
    IF ds = << >> THEN 0
    ELSE 10 * parseDigits(SubSeq(ds, 1, Len(ds) - 1))
         + (CHOOSE v \in 0..9 : DigitChars[v + 1] = ds[Len(ds)])

\* String.prototype.trim.
RECURSIVE trim(_)
trim(t) ==
    IF t = << >> THEN t
    ELSE IF IsSpace(t[1]) THEN trim(Tail(t))
    ELSE IF IsSpace(t[Len(t)]) THEN trim(SubSeq(t, 1, Len(t) - 1))
    ELSE t

\* input.split(/[,;\n]+/).filter(e => e.trim()): the maximal separator-free
\* runs of the text that are not blank.
RECURSIVE splitLoop(_, _, _)
splitLoop(t, i, current) ==
    LET flushed == IF trim(current) = << >> THEN << >> ELSE << current >>
    IN  IF i > Len(t) THEN flushed
        ELSE IF IsSeparator(t[i]) THEN flushed \o splitLoop(t, i + 1, << >>)
        ELSE splitLoop(t, i + 1, Append(current, t[i]))

splitEntries(input) == splitLoop(input, 1, << >>)

\* Whether the text after the k-th character matches [\s-]*(\d+)$ ; the two
\* character classes are disjoint, so the digits are the longest digit suffix.
tailMatches(e, k) ==
    \E d \in (k + 1)..Len(e) :
        /\ \A i \in d..Len(e) : IsDigit(e[i])
        /\ \A i \in (k + 1)..(d - 1) : IsSpace(e[i]) \/ e[i] = "-"

\* entry.match(/^(\w+)[\s-]*(\d+)$/): the greedy \w+ takes the longest word
\* prefix after which the rest still matches.  << >> stands for no match.
matchEntry(e) ==
    LET ks == { k \in 1..(Len(e) - 1) :
                  /\ \A i \in 1..k : IsWordChar(e[i])
                  /\ tailMatches(e, k) }
    IN  IF ks = {} THEN << >>
        ELSE LET k == CHOOSE x \in ks : \A y \in ks : y <= x
                 d == CHOOSE x \in (k + 1)..Len(e) :
                        /\ \A i \in x..Len(e) : IsDigit(e[i])
                        /\ \A i \in (k + 1)..(x - 1) : ~IsDigit(e[i])
             IN  << SubSeq(e, 1, k), SubSeq(e, d, Len(e)) >>

(***************************************************************************)
(* Exact arithmetic for the seasonal extrapolation.  A non-negative        *)
(* rational is held as an integer part and mixed-radix fraction digits     *)
(*   int + d[1]/R[1] + d[2]/(R[1]*R[2]) + ...                              *)
(* The product of the radices is a multiple of every divisor F*n that      *)
(* occurs below (a seasonal factor in hundredths times a bill count of at  *)
(* most 11), so every quotient is represented exactly and no intermediate  *)
(* value leaves the 32-bit range.                                          *)
(***************************************************************************)
Radices == << 128, 243, 625, 49, 19, 23, 29, 17, 11 >>

RECURSIVE fracDigits(_, _, _)
fracDigits(r, b, j) ==
    IF j > Len(Radices) THEN << >>
    ELSE << (r * Radices[j]) \div b >> \o fracDigits((r * Radices[j]) % b, b, j + 1)

\* a / b for a >= 0, b > 0.
Quot(a, b) == [int |-> a \div b, digits |-> fracDigits(a % b, b, 1)]

\* The carry out of fraction digit j when x and y are added.
RECURSIVE carryOut(_, _, _)
carryOut(xd, yd, j) ==
    IF j > Len(Radices) THEN 0
    ELSE (xd[j] + yd[j] + carryOut(xd, yd, j + 1)) \div Radices[j]

QAdd(x, y) ==
    [int    |-> x.int + y.int + carryOut(x.digits, y.digits, 1),
     digits |-> [j \in 1..Len(Radices) |->
                   (x.digits[j] + y.digits[j] + carryOut(x.digits, y.digits, j + 1))
                       % Radices[j]]]

QZero == Quot(0, 1)

\* Math.round of a non-negative value: floor(x + 1/2).
QRound(x) == QAdd(x, Quot(1, 2)).int

(***************************************************************************)
(* Bill ledger.                                                            *)
(***************************************************************************)
\* Hundredths; indexed like `months`.
UAE_SEASONAL_FACTORS ==
    [m \in Range(months) |->
        CASE m = "January"   -> 75   [] m = "February" -> 70
          [] m = "March"     -> 80   [] m = "April"    -> 95
          [] m = "May"       -> 115  [] m = "June"     -> 135
          [] m = "July"      -> 150  [] m = "August"   -> 145
          [] m = "September" -> 125  [] m = "October"  -> 105
          [] m = "November"  -> 85   [] m = "December" -> 80]

\* Variant of acceptsEntry that forgets the consumption > 0 test.
acceptsEntryAnyConsumption(monthIndex, consumption, existingMonths) ==
    /\ monthIndex # 0
    /\ months[monthIndex] \notin existingMonths

\* if (month && consumption > 0 && !existingMonths.has(month))
acceptsEntry(monthIndex, consumption, existingMonths) ==
    /\ monthIndex # 0
    /\ consumption > 0
    /\ months[monthIndex] \notin existingMonths

\* The entries.forEach body of parseBillInput, threading newBills and
\* existingMonths through the entries in order.
RECURSIVE parseLoop(_, _, _, _)
parseLoop(entries, i, newBills, existingMonths) ==
    IF i > Len(entries) THEN newBills
    ELSE LET match == matchEntry(trim(entries[i]))
         IN  IF match = << >>
             THEN parseLoop(entries, i + 1, newBills, existingMonths)
             ELSE LET consumption == parseDigits(match[2])
                      monthIndex == findMonthIndex(LowerText(match[1]))
                  IN  IF acceptsEntry(monthIndex, consumption, existingMonths)
                      THEN parseLoop(entries, i + 1,
                               Append(newBills,
                                   [month       |-> months[monthIndex],
                                    consumption |-> consumption,
                                    amount      |-> calculateBillAmount(consumption),
                                    isEstimated |-> FALSE]),
                               existingMonths \cup {months[monthIndex]})
                      ELSE parseLoop(entries, i + 1, newBills, existingMonths)

parseBillInput(input) ==
    parseLoop(splitEntries(input), 1, << >>, { bills[i].month : i \in 1..Len(bills) })

\* filter((bill, index, self) => index === self.findIndex(b => b.month === bill.month))
firstOfMonth(s) ==
    LET keep(i) == \A j \in 1..(i - 1) : s[j].month # s[i].month
        F[i \in 0..Len(s)] ==
            IF i = 0 THEN << >>
            ELSE IF keep(i) THEN Append(F[i - 1], s[i]) ELSE F[i - 1]
    IN  F[Len(s)]

\* sort((a, b) => months.indexOf(a.month) - months.indexOf(b.month)): a stable
\* sort, here by insertion.
RECURSIVE insertByMonth(_, _)
insertByMonth(sorted, b) ==
    IF sorted = << >> THEN << b >>
    ELSE IF monthIndexOf(b.month) < monthIndexOf(sorted[1].month)
         THEN << b >> \o sorted
         ELSE << sorted[1] >> \o insertByMonth(Tail(sorted), b)

sortByMonth(s) ==
    LET F[i \in 0..Len(s)] ==
            IF i = 0 THEN << >> ELSE insertByMonth(F[i - 1], s[i])
    IN  F[Len(s)]

AddBillsResult(input) ==
    The({ IF Len(newBills) > 0
          THEN The({ sortByMonth(merged) : merged \in { firstOfMonth(bills \o newBills) } })
          ELSE bills
          : newBills \in { parseBillInput(input) } })

\* normalizedAvgConsumption * UAE_SEASONAL_FACTORS[month], before rounding:
\* the sum over the bills of (consumption / factor) / length * factor[month].
RECURSIVE scaledBaseline(_, _, _)
scaledBaseline(bs, i, month) ==
    IF i > Len(bs) THEN QZero
    ELSE QAdd(Quot(bs[i].consumption * UAE_SEASONAL_FACTORS[month],
                   UAE_SEASONAL_FACTORS[bs[i].month] * Len(bs)),
              scaledBaseline(bs, i + 1, month))

\* Variant of estimatedBill that truncates where the code rounds.
estimatedBillTruncated(bs, month) ==
    The({ [month       |-> month,
           consumption |-> estimatedConsumption,
           amount      |-> calculateBillAmount(estimatedConsumption),
           isEstimated |-> TRUE]
          : estimatedConsumption \in { scaledBaseline(bs, 1, month).int } })

estimatedBill(bs, month) ==
    The({ [month       |-> month,
           consumption |-> estimatedConsumption,
           amount      |-> calculateBillAmount(estimatedConsumption),
           isEstimated |-> TRUE]
          : estimatedConsumption \in { QRound(scaledBaseline(bs, 1, month)) } })

\* Variant of estimateReturnsEarly that forgets the full-year test.
estimateReturnsEarlyOnEmpty(bs) == Len(bs) = 0

\* if (bills.length === 0 || bills.length >= 12) return;
estimateReturnsEarly(bs) == Len(bs) = 0 \/ Len(bs) >= 12

\* Variant of missingMonths that estimates every month of the year.
missingMonthsUnfiltered(bs) == SelectSeq(months, LAMBDA m : Len(bs) >= 0)

\* months.filter(month => !userProvidedMonths.has(month))
missingMonths(bs) ==
    LET userProvidedMonths == { bs[i].month : i \in 1..Len(bs) }
    IN  SelectSeq(months, LAMBDA m : m \notin userProvidedMonths)

EstimateResult(bs) ==
    IF estimateReturnsEarly(bs) THEN bs
    ELSE LET missing == missingMonths(bs)
             estimatedBills == [i \in 1..Len(missing) |-> estimatedBill(bs, missing[i])]
             kept == [i \in 1..Len(bs) |-> [bs[i] EXCEPT !.isEstimated = FALSE]]
         IN  The({ sortByMonth(fullYearBills) : fullYearBills \in { kept \o estimatedBills } })

(***************************************************************************)
(* Numbers of the seasonal analyser and the system sizer.  A number is     *)
(* [k, n, d]: k = "fin" is the rational n/d in lowest terms (d > 0),       *)
(* k = "inf" is the infinity of sign n, k = "nan" is NaN.                  *)
(***************************************************************************)
Abs(n) == IF n < 0 THEN -n ELSE n
Sgn(n) == IF n < 0 THEN -1 ELSE 1

RECURSIVE GCD(_, _)
GCD(a, b) == IF b = 0 THEN a ELSE GCD(b, a % b)

JFin(n, d) ==
    The({ [k |-> "fin", n |-> n \div g, d |-> d \div g] : g \in { GCD(Abs(n), d) } })
JInt(n) == [k |-> "fin", n |-> n, d |-> 1]
JInf(sign) == [k |-> "inf", n |-> sign, d |-> 0]
NaN == [k |-> "nan", n |-> 0, d |-> 0]

JNeg(x) == IF x.k = "nan" THEN NaN ELSE [x EXCEPT !.n = -x.n]

\* x * y
JMul(x, y) ==
    IF x.k = "nan" \/ y.k = "nan" THEN NaN
    ELSE IF x.k = "inf" \/ y.k = "inf"
         THEN IF x.n = 0 \/ y.n = 0 THEN NaN ELSE JInf(Sgn(x.n) * Sgn(y.n))
    ELSE LET g1 == GCD(Abs(x.n), y.d)
             g2 == GCD(Abs(y.n), x.d)
         IN  JFin((x.n \div g1) * (y.n \div g2), (x.d \div g2) * (y.d \div g1))

\* x / y; a zero divisor is +0 (no negative value reaches a divisor here).
JDiv(x, y) ==
    IF x.k = "nan" \/ y.k = "nan" THEN NaN
    ELSE IF y.k = "inf" THEN (IF x.k = "inf" THEN NaN ELSE JInt(0))
    ELSE IF x.k = "inf" THEN JInf(x.n * Sgn(y.n))
    ELSE IF y.n = 0 THEN (IF x.n = 0 THEN NaN ELSE JInf(Sgn(x.n)))
    ELSE JMul(x, [k |-> "fin", n |-> Sgn(y.n) * y.d, d |-> Abs(y.n)])

\* x + y
JAdd(x, y) ==
    IF x.k = "nan" \/ y.k = "nan" THEN NaN
    ELSE IF x.k = "inf" THEN (IF y.k = "inf" /\ y.n # x.n THEN NaN ELSE x)
    ELSE IF y.k = "inf" THEN y
    ELSE LET g == GCD(x.d, y.d)
         IN  JFin(x.n * (y.d \div g) + y.n * (x.d \div g), (x.d \div g) * y.d)

JSub(x, y) == JAdd(x, JNeg(y))

\* Math.ceil
JCeil(x) == IF x.k = "fin" THEN JInt(-((-x.n) \div x.d)) ELSE x

\* Math.round: the nearest integer, a half going up.
JRound(x) == IF x.k = "fin" THEN JInt((2 * x.n + x.d) \div (2 * x.d)) ELSE x

\* Math.min
JMin(x, y) ==
    IF x.k = "nan" \/ y.k = "nan" THEN NaN
    ELSE IF x.k = "inf" THEN (IF x.n < 0 THEN x ELSE y)
    ELSE IF y.k = "inf" THEN (IF y.n < 0 THEN y ELSE x)
    ELSE IF x.n * y.d <= y.n * x.d THEN x ELSE y

\* x > 0
JGt0(x) == x.k # "nan" /\ x.n > 0

(***************************************************************************)
(* Numbers of the financial simulation.  The simulation multiplies by      *)
(* 1.02^(year-1) and 0.995^(year-1); its values are kept exactly, as       *)
(* integers of any size over a fixed denominator.  An integer is           *)
(* [neg, mag]: mag holds the digits of the magnitude in base 10000, least  *)
(* significant first, without leading zeros; zero is [FALSE, << >>].       *)
(***************************************************************************)
Base == 10000

\* The operators on magnitudes give each digit of the result directly, from
\* the digits of the operands and the carry that reaches it, so that the
\* depth of an evaluation does not grow with the number of digits.

\* mag without its leading (most significant) zeros, as a sequence.
trimZeros(m) ==
    LET nonzero == { i \in 1..Len(m) : m[i] # 0 }
    IN  SubSeq(m, 1, IF nonzero = {} THEN 0
                     ELSE CHOOSE i \in nonzero : \A j \in nonzero : j <= i)

digitAt(m, i) == IF i <= Len(m) THEN m[i] ELSE 0

\* -1, 0 or 1 as a < b, a = b or a > b: the most significant digit that
\* differs decides.
magCmp(a, b) ==
    IF Len(a) # Len(b) THEN (IF Len(a) < Len(b) THEN -1 ELSE 1)
    ELSE IF a = b THEN 0
    ELSE LET top == CHOOSE i \in 1..Len(a) :
                        a[i] # b[i] /\ \A j \in (i + 1)..Len(a) : a[j] = b[j]
         IN  IF a[top] < b[top] THEN -1 ELSE 1

\* A carry reaches digit i of a sum with the digit sums s: a digit below i
\* overflows and every digit between the two passes the carry on.
carryInto(s, i) ==
    \E j \in 1..(i - 1) :
        s[j] >= Base /\ \A k \in (j + 1)..(i - 1) : s[k] = Base - 1

\* a + b
magAdd(a, b) ==
    LET n == Max(Len(a), Len(b))
        s == SubSeq([i \in 1..(n + 1) |-> digitAt(a, i) + digitAt(b, i)], 1, n + 1)
    IN  trimZeros([i \in 1..(n + 1) |->
                      (s[i] + (IF carryInto(s, i) THEN 1 ELSE 0)) % Base])

\* A borrow reaches digit i of a difference with the digit differences d.
borrowInto(d, i) ==
    \E j \in 1..(i - 1) :
        d[j] < 0 /\ \A k \in (j + 1)..(i - 1) : d[k] = 0

\* a - b for a >= b
magSub(a, b) ==
    LET d == SubSeq([i \in 1..Len(a) |-> a[i] - digitAt(b, i)], 1, Len(a))
    IN  trimZeros([i \in 1..Len(a) |->
                      (d[i] + Base - (IF borrowInto(d, i) THEN 1 ELSE 0)) % Base])

\* The digits of a natural number.
RECURSIVE magOfNat(_)
magOfNat(n) == IF n = 0 THEN << >> ELSE << n % Base >> \o magOfNat(n \div Base)

\* a * m for 0 <= m < 200000: the three digits of each product a[i] * m, each
\* at its place.
magMulSmall(a, m) ==
    LET n == Len(a)
        low  == SubSeq([i \in 1..n |-> (a[i] * m) % Base], 1, n)
        mid  == SubSeq([i \in 1..(n + 1) |->
                           IF i = 1 THEN 0 ELSE ((a[i - 1] * m) \div Base) % Base],
                       1, n + 1)
        high == SubSeq([i \in 1..(n + 2) |->
                           IF i <= 2 THEN 0 ELSE (a[i - 2] * m) \div (Base * Base)],
                       1, n + 2)
    IN  IF m < Base THEN magAdd(low, mid) ELSE magAdd(magAdd(low, mid), high)

\* a * Base^n
magShift(a, n) == IF a = << >> THEN << >> ELSE [i \in 1..n |-> 0] \o a

\* a times the digits lo..hi of b, each at its place, by halves of lo..hi.
RECURSIVE magMulRange(_, _, _, _)
magMulRange(a, b, lo, hi) ==
    IF lo = hi THEN magShift(magMulSmall(a, b[lo]), lo - 1)
    ELSE magAdd(magMulRange(a, b, lo, (lo + hi) \div 2),
                magMulRange(a, b, (lo + hi) \div 2 + 1, hi))

\* a * b, digit by digit of the shorter of the two.
magMul(a, b) ==
    IF a = << >> \/ b = << >> THEN << >>
    ELSE IF Len(a) < Len(b) THEN magMulRange(b, a, 1, Len(a))
    ELSE magMulRange(a, b, 1, Len(b))

\* The greatest d of 0..9 with d * b <= r, for r < 10 * b.
magDigit(r, b) ==
    CHOOSE d \in 0..9 :
        /\ magCmp(magMulSmall(b, d), r) <= 0
        /\ magCmp(magMulSmall(b, d + 1), r) > 0

\* << floor(a / b), a mod b >> for b > 0, one decimal digit of the quotient
\* at a time.
RECURSIVE magDivMod(_, _)
magDivMod(a, b) ==
    IF magCmp(a, b) < 0 THEN << << >>, a >>
    ELSE The({ LET d == magDigit(upper[2], b)
               IN  << magAdd(magMulSmall(upper[1], 10), magOfNat(d)),
                      magSub(upper[2], magMulSmall(b, d)) >>
               : upper \in { magDivMod(a, magMulSmall(b, 10)) } })

\* The digits lo..hi of floor((rem * Base^hi + a) / m) for 0 < m < 200000,
\* by halves of lo..hi from the upper one, and the remainder below digit lo.
RECURSIVE magDivSmallRange(_, _, _, _, _)
magDivSmallRange(a, m, lo, hi, rem) ==
    IF lo > hi THEN [d |-> << >>, c |-> rem]
    ELSE IF lo = hi
    THEN [d |-> << (rem * Base + a[lo]) \div m >>, c |-> (rem * Base + a[lo]) % m]
    ELSE The({ LET lower == magDivSmallRange(a, m, lo, (lo + hi) \div 2, upper.c)
               IN  [d |-> lower.d \o upper.d, c |-> lower.c]
               : upper \in { magDivSmallRange(a, m, (lo + hi) \div 2 + 1, hi, rem) } })

BZero == [neg |-> FALSE, mag |-> << >>]

BMake(neg, mag) == [neg |-> neg /\ mag # << >>, mag |-> mag]

BInt(n) == BMake(n < 0, magOfNat(Abs(n)))

\* The value of a small integer.
RECURSIVE natOfMag(_, _)
natOfMag(m, i) == IF i > Len(m) THEN 0 ELSE m[i] + Base * natOfMag(m, i + 1)

BToInt(x) == IF x.neg THEN -natOfMag(x.mag, 1) ELSE natOfMag(x.mag, 1)

BNeg(x) == BMake(~x.neg, x.mag)
BAbs(x) == BMake(FALSE, x.mag)

\* x + y
BAdd(x, y) ==
    IF x.neg = y.neg THEN BMake(x.neg, magAdd(x.mag, y.mag))
    ELSE IF magCmp(x.mag, y.mag) >= 0 THEN BMake(x.neg, magSub(x.mag, y.mag))
    ELSE BMake(y.neg, magSub(y.mag, x.mag))

BSub(x, y) == BAdd(x, BNeg(y))

\* -1, 0 or 1 as x < y, x = y or x > y.
BCmp(x, y) ==
    IF x.neg # y.neg THEN (IF x.neg THEN -1 ELSE 1)
    ELSE IF x.neg THEN magCmp(y.mag, x.mag) ELSE magCmp(x.mag, y.mag)

BLe(x, y) == BCmp(x, y) <= 0
BLt(x, y) == BCmp(x, y) < 0
BMin(x, y) == IF BLe(x, y) THEN x ELSE y
BMax(x, y) == IF BLe(x, y) THEN y ELSE x

\* x * m for a small integer m.
BMulSmall(x, m) == BMake(x.neg # (m < 0), magMulSmall(x.mag, Abs(m)))

\* x * y
BMul(x, y) == BMake(x.neg # y.neg, magMul(x.mag, y.mag))

\* floor(x / y) for y > 0.
BDivFloor(x, y) ==
    LET qr == magDivMod(x.mag, y.mag)
    IN  IF ~x.neg THEN BMake(FALSE, qr[1])
        ELSE IF qr[2] = << >> THEN BMake(TRUE, qr[1])
        ELSE BMake(TRUE, magAdd(qr[1], << 1 >>))

\* Math.round(x / y) for y > 0: floor(x / y + 1/2).
BRoundDiv(x, y) == BDivFloor(BAdd(BMulSmall(x, 2), y), BMulSmall(y, 2))

\* floor(a / m) for an m > 0 that divides Base: each digit of the quotient
\* comes from a digit of a and the one above it.
magDivFactor(a, m) ==
    trimZeros([i \in 1..Len(a) |->
                  a[i] \div m + (digitAt(a, i + 1) % m) * (Base \div m)])

\* x / m for a small integer m > 0 that divides x.
BDivSmall(x, m) ==
    BMake(x.neg, IF Base % m = 0 THEN magDivFactor(x.mag, m)
                 ELSE trimZeros(magDivSmallRange(x.mag, m, 1, Len(x.mag), 0).d))

\* x^n for a small x, by halves of the exponent.
RECURSIVE BPow(_, _)
BPow(x, n) ==
    IF n = 0 THEN BInt(1)
    ELSE IF n = 1 THEN BInt(x)
    ELSE LET half == BPow(x, n \div 2)
         IN  BMul(half, IF n % 2 = 0 THEN half ELSE BMulSmall(half, x))

(***************************************************************************)
(* Seasonal analyser and system sizer: the bodies of the two effects.      *)
(***************************************************************************)
summerMonths == { "May", "June", "July", "August", "September" }
winterMonths ==
    { "October", "November", "December", "January", "February", "March", "April" }

\* bills.reduce((sum, bill) => sum + bill.consumption, 0)
RECURSIVE sumConsumption(_)
sumConsumption(bs) ==
    IF bs = << >> THEN 0 ELSE bs[1].consumption + sumConsumption(Tail(bs))

\* The mean consumption of bs, 0 for an empty bs.
avgOf(bs) == IF Len(bs) > 0 THEN JFin(sumConsumption(bs), Len(bs)) ELSE JInt(0)

ZeroSeasonal ==
    [summerAvg |-> 0, winterAvg |-> 0, spikePercentage |-> 0,
     baseLoad |-> 0, coolingLoad |-> 0]

\* The value the seasonal effect passes to setSeasonalAnalysis.
seasonalEffect(bs) ==
    IF Len(bs) > 0
    THEN LET summerBills == SelectSeq(bs, LAMBDA bill : bill.month \in summerMonths)
             winterBills == SelectSeq(bs, LAMBDA bill : bill.month \in winterMonths)
         IN  The({ [summerAvg       |-> JRound(summerAvg).n,
                    winterAvg       |-> JRound(winterAvg).n,
                    spikePercentage |->
                        JRound(IF JGt0(winterAvg)
                               THEN JMul(JDiv(JSub(summerAvg, winterAvg), winterAvg), JInt(100))
                               ELSE JInt(0)).n,
                    baseLoad        |-> JRound(winterAvg).n,
                    coolingLoad     |-> JRound(JSub(summerAvg, winterAvg)).n]
                   : summerAvg \in { avgOf(summerBills) },
                     winterAvg \in { avgOf(winterBills) } })
    ELSE ZeroSeasonal

ZeroRecommendation ==
    [systemSize |-> JInt(0), panelCount |-> JInt(0), spaceRequired |-> JInt(0),
     annualProduction |-> JInt(0), inverterCapacity |-> JInt(0),
     batteryCapacity |-> JInt(0), summerCoverage |-> JInt(0),
     winterCoverage |-> JInt(0), annualCoverage |-> JInt(0)]

\* (production / consumption) * 100, or 100 when the consumption is not > 0.
coverageOf(production, consumption) ==
    IF JGt0(consumption)
    THEN JMul(JDiv(production, consumption), JInt(100))
    ELSE JInt(100)

\* Math.min(Math.round(coverage), 100)
cappedCoverage(coverage) == JMin(JRound(coverage), JInt(100))

\* The value the sizing effect passes to setSystemRecommendation; sunHours
\* is in tenths of an hour.
sizingEffect(bs, auth, battery, daytime, sunHours, efficiency, wattage, seasonal) ==
    IF Len(bs) > 0
    THEN LET avgMonthlyConsumption == avgOf(bs)
             avgDailyConsumption == JDiv(avgMonthlyConsumption, JInt(30))
             targetConsumption ==
                 IF auth = "FEWA" /\ ~battery
                 THEN JMul(avgDailyConsumption, JDiv(JInt(daytime), JInt(100)))
                 ELSE avgDailyConsumption
             systemSize ==
                 JDiv(targetConsumption,
                      JMul(JFin(sunHours, 10), JDiv(JInt(efficiency), JInt(100))))
             panelCount == JCeil(JDiv(JMul(systemSize, JInt(1000)), JInt(wattage)))
             actualSystemSize == JDiv(JMul(panelCount, JInt(wattage)), JInt(1000))
             spaceRequired == JMul(panelCount, JFin(21, 10))
             annualProduction ==
                 JMul(JMul(JMul(actualSystemSize, JFin(sunHours, 10)), JInt(365)),
                      JDiv(JInt(efficiency), JInt(100)))
             inverterCapacity ==
                 JDiv(JCeil(JMul(JMul(actualSystemSize, JFin(11, 10)), JInt(10))),
                      JInt(10))
             batteryCapacity ==
                 IF auth = "FEWA" /\ battery
                 THEN JCeil(JMul(JMul(avgDailyConsumption,
                                      JSub(JInt(1), JDiv(JInt(daytime), JInt(100)))),
                                 JFin(12, 10)))
                 ELSE JInt(0)
             monthlyProduction == JDiv(annualProduction, JInt(12))
             summerCoverage == coverageOf(monthlyProduction, JInt(seasonal.summerAvg))
             winterCoverage == coverageOf(monthlyProduction, JInt(seasonal.winterAvg))
             annualCoverage ==
                 coverageOf(annualProduction, JMul(avgMonthlyConsumption, JInt(12)))
         IN  [systemSize       |-> JDiv(JRound(JMul(actualSystemSize, JInt(10))), JInt(10)),
              panelCount       |-> panelCount,
              spaceRequired    |-> JRound(spaceRequired),
              annualProduction |-> JRound(annualProduction),
              inverterCapacity |-> inverterCapacity,
              batteryCapacity  |-> batteryCapacity,
              summerCoverage   |-> cappedCoverage(summerCoverage),
              winterCoverage   |-> cappedCoverage(winterCoverage),
              annualCoverage   |-> cappedCoverage(annualCoverage)]
    ELSE ZeroRecommendation

(***************************************************************************)
(* Exact numbers of the financial analysis.                                *)
(*   - An energy is a big integer that counts 1/KwhUnit kWh.  KwhUnit is   *)
(*     chosen so that the mean of up to twelve bills, a twelfth of the     *)
(*     annual production, 24 years of degradation and a percentage of a    *)
(*     production are all whole.                                           *)
(*   - An amount of money of one simulated year is a pair [c, k]: c counts *)
(*     1/(100 * KwhUnit) AED before escalation, and (51/50)^k is the       *)
(*     escalation factor of the year; zero is [c |-> 0, k |-> 0].          *)
(*   - An amount of money carried across years is a big integer that       *)
(*     counts 1/MoneyUnit AED.                                             *)
(* The system cost typed by the user is a string of digits.                *)
(***************************************************************************)
SYSTEM_LIFESPAN_YEARS == 25

\* 1 - DEGRADATION_RATE = 199/200
DegradationNum == 199
DegradationDen == 200

\* 1 + ELECTRICITY_ESCALATION = 51/50
EscalationNum == 51
EscalationDen == 50

\* annualMaintenanceCost = initialInvestment * 0.01 = initialInvestment / 100
MaintenanceDivisor == 100

\* selfConsumptionRate with a battery: 0.95, as a percentage
BatterySelfConsumption == 95

\* The least common multiple of 1..12: any ledger length divides it.
LedgerLcm == 27720

KwhUnit == BMul(BInt(LedgerLcm * 100), BPow(DegradationDen, SYSTEM_LIFESPAN_YEARS - 1))

kwhOfInt(n) == BMul(KwhUnit, BInt(n))

\* LedgerShares[n]: 1/n kWh, for a ledger of n bills.
LedgerShares == [n \in 1..Len(months) |-> BDivSmall(KwhUnit, n)]

\* << unit, unit * num/den, unit * (num/den)^2, ... >>, n entries.
RECURSIVE geometric(_, _, _, _)
geometric(unit, num, den, n) ==
    IF n = 0 THEN << >>
    ELSE IF n = 1 THEN << unit >>
    ELSE LET lower == geometric(unit, num, den, n \div 2)
         IN  lower \o geometric(BDivSmall(BMulSmall(lower[Len(lower)], num), den),
                                num, den, n - n \div 2)

\* DegradationUnits[year]: Math.pow(1 - DEGRADATION_RATE, year - 1) / 12 kWh.
DegradationUnits ==
    geometric(BDivSmall(KwhUnit, 12), DegradationNum, DegradationDen,
              SYSTEM_LIFESPAN_YEARS)

\* EscalationUnits[k + 1]: (51/50)^k, counted in 1/50^24.
EscalationUnits ==
    geometric(BPow(EscalationDen, SYSTEM_LIFESPAN_YEARS - 1), EscalationNum,
              EscalationDen, SYSTEM_LIFESPAN_YEARS)

MoneyUnit == BMul(BMulSmall(KwhUnit, 100), EscalationUnits[1])

EZero == [c |-> BZero, k |-> 0]
EMake(c, k) == IF c = BZero THEN EZero ELSE [c |-> c, k |-> k]

\* Variant of escalationFactor that escalates from the first year on.
escalationFactorFromFirstYear(year) == [c |-> BInt(1), k |-> year]

\* Math.pow(1 + escalation, year - 1)
escalationFactor(year) == [c |-> BInt(1), k |-> year - 1]

\* rate * factor, for a rate in hundredths of AED per kWh
ERate(rate, factor) == EMake(BMulSmall(factor.c, rate), factor.k)

\* kwh * price, for an escalated price
ETimes(kwh, price) == EMake(BMul(kwh, price.c), price.k)

\* x + y and x - y for amounts of one year (or zero)
EAdd(x, y) == EMake(BAdd(x.c, y.c), IF x.c = BZero THEN y.k ELSE x.k)
ESub(x, y) == EMake(BSub(x.c, y.c), IF x.c = BZero THEN y.k ELSE x.k)
ELe(x, y) == BLe(x.c, y.c)

\* The amount as a plain amount of money.
toMoney(x) == BMul(x.c, EscalationUnits[x.k + 1])


(***************************************************************************)
(* calculateBillAmountWithEscalation (src/App.tsx 251-272), on exact       *)
(* energies.                                                               *)
(***************************************************************************)
\* The loop of lines 260-269 from tier i on.
RECURSIVE EscalatedTierLoop(_, _, _, _, _)
EscalatedTierLoop(ts, i, remaining, total, factor) ==
    IF i > Len(ts) \/ BLe(remaining, BZero) THEN total
    ELSE LET tierStart == IF ts[i].from > 0 THEN ts[i].from - 1 ELSE 0
             tierConsumption ==
                 IF ts[i].to = Infinity THEN remaining
                 ELSE BMin(remaining, kwhOfInt(ts[i].to - tierStart))
             after ==
                 [remaining |-> BSub(remaining, tierConsumption),
                  total |-> EAdd(total, ETimes(BMax(BZero, tierConsumption),
                                               ERate(ts[i].rate, factor)))]
         IN  EscalatedTierLoop(ts, i + 1, after.remaining, after.total, factor)

\* calculateBillAmountWithEscalation(consumption, year, ELECTRICITY_ESCALATION)
calculateBillAmountWithEscalation(consumption, year) ==
    IF BLe(consumption, BZero) THEN EZero
    ELSE IF rateStructure = "flat"
    THEN ETimes(consumption, ERate(electricityRate, escalationFactor(year)))
    ELSE EscalatedTierLoop(tiers, 1, consumption, EZero, escalationFactor(year))

(***************************************************************************)
(* calculateBillAmount and getAverageRate (src/App.tsx 56-81) on exact     *)
(* energies; the amount counts 1/(100 * KwhUnit) AED.                      *)
(***************************************************************************)
RECURSIVE KwhTierLoop(_, _, _, _)
KwhTierLoop(ts, i, remaining, total) ==
    IF i > Len(ts) \/ BLe(remaining, BZero) THEN total
    ELSE LET tierStart == IF ts[i].from > 0 THEN ts[i].from - 1 ELSE 0
             tierConsumption ==
                 IF ts[i].to = Infinity THEN remaining
                 ELSE BMin(remaining, kwhOfInt(ts[i].to - tierStart))
             after ==
                 [remaining |-> BSub(remaining, tierConsumption),
                  total |-> BAdd(total, BMulSmall(BMax(BZero, tierConsumption),
                                                  ts[i].rate))]
         IN  KwhTierLoop(ts, i + 1, after.remaining, after.total)

calculateBillAmountOfKwh(consumption) ==
    IF BLe(consumption, BZero) THEN BZero
    ELSE IF rateStructure = "flat" THEN BMulSmall(consumption, electricityRate)
    ELSE KwhTierLoop(tiers, 1, consumption, BZero)

\* getAverageRate(consumption) in AED per kWh, as the fraction num / den.
getAverageRate(consumption) ==
    IF consumption = BZero
    THEN [num |-> BInt(IF rateStructure = "flat" THEN electricityRate
                       ELSE IF Len(tiers) > 0 THEN tiers[1].rate ELSE 0),
          den |-> BInt(100)]
    ELSE IF rateStructure = "flat"
    THEN [num |-> BInt(electricityRate), den |-> BInt(100)]
    ELSE [num |-> calculateBillAmountOfKwh(consumption),
          den |-> BMulSmall(consumption, 100)]

(***************************************************************************)
(* The financial effect (src/App.tsx 274-357), one loop iteration at a     *)
(* time.  A run is a record s of the effect's local variables; the         *)
(* operators below read the values of the render (the state variables).    *)
(* The annual production is a whole number of kWh (Math.round in the       *)
(* sizer), and the yearly cash flow is positive when a payback is          *)
(* recorded.                                                               *)
(***************************************************************************)
annualProduction == systemRecommendation.annualProduction.n

financialReturnsEarly ==
    \/ systemCost = << >>
    \/ Len(bills) = 0
    \/ systemRecommendation.annualProduction = JInt(0)

ZeroFinancial ==
    [annualSavings |-> 0, paybackPeriod |-> 0, roi25Year |-> 0,
     netMeteringCredits |-> 0]

\* parseFloat(systemCost)
initialInvestment == BMul(MoneyUnit, BInt(parseDigits(systemCost)))

annualMaintenanceCost == BDivSmall(initialInvestment, MaintenanceDivisor)

avgMonthlyConsumption ==
    BMul(LedgerShares[Len(bills)], BInt(sumConsumption(bills)))

\* consumptionByMonth[monthIndex]
consumptionByMonth(monthIndex) ==
    LET found == { i \in 1..Len(bills) : bills[i].month = months[monthIndex + 1] }
    IN  IF found = {} THEN avgMonthlyConsumption
        ELSE kwhOfInt(bills[CHOOSE i \in found : \A j \in found : i <= j].consumption)

\* (annualProduction / 12) * degradationFactor
monthlyProductionOf(year) == BMul(DegradationUnits[year], BInt(annualProduction))

\* percent % of an energy
percentOf(kwh, percent) == BDivSmall(BMulSmall(kwh, percent), 100)

PaybackUnset == [whole |-> 0, num |-> BZero, den |-> BInt(1)]

\* paybackPeriodYears === 0, for the number whole + num / den
paybackIsZero(p) ==
    p.den # BZero /\ BAdd(BMul(BInt(p.whole), p.den), p.num) = BZero

\* The local variables of a run that has not started; the last seven fields
\* are the locals of the latest month and year, and the bank at the end of
\* year 1.
simIdle ==
    [pc |-> "idle", year |-> 1, monthIndex |-> 0,
     cumulativeCashFlow |-> BZero,
     paybackPeriodYears |-> PaybackUnset,
     firstYearAnnualSavings |-> EZero,
     netMeteringCreditsKwh |-> BZero,
     yearlySavings |-> EZero,
     monthlyConsumption |-> BZero, monthlyProduction |-> BZero,
     originalBill |-> EZero, newBill |-> EZero, billedKwh |-> BZero,
     yearlyCashFlow |-> BZero, firstYearBank |-> BZero]

\* The local variables after lines 284-297.
simStart ==
    [simIdle EXCEPT !.pc = "month",
                    !.cumulativeCashFlow = BNeg(initialInvestment)]

\* Lines 275-278: the run of a render starts, or returns zeros at once.
simBegin == IF financialReturnsEarly THEN [simIdle EXCEPT !.pc = "zero"] ELSE simStart

\* Variant of the regime-A month that never draws from the bank.
monthDEWANoDraw(s, consumption, production) ==
    IF BLe(consumption, production)
    THEN [bank |-> BAdd(s.netMeteringCreditsKwh, BSub(production, consumption)),
          billedKwh |-> BZero]
    ELSE [bank |-> s.netMeteringCreditsKwh,
          billedKwh |-> BSub(consumption, production)]

\* Lines 311-322: the bank and the billed energy after a month under DEWA.
monthDEWA(s, consumption, production) ==
    IF BLe(consumption, production)
    THEN [bank |-> BAdd(s.netMeteringCreditsKwh, BSub(production, consumption)),
          billedKwh |-> BZero]
    ELSE LET kwhToDraw == BAbs(BSub(production, consumption))
             drawn == BMin(kwhToDraw, s.netMeteringCreditsKwh)
         IN  [bank |-> BSub(s.netMeteringCreditsKwh, drawn),
              billedKwh |-> BSub(kwhToDraw, drawn)]

\* Variant of the regime-B month that bills the saved energy on top of the
\* consumption.
monthFEWAOverbilled(s, consumption, production) ==
    LET savedKwh == BMin(percentOf(production,
                                   IF batteryEnabled THEN BatterySelfConsumption
                                   ELSE daytimeConsumption),
                         consumption)
    IN  [bank |-> s.netMeteringCreditsKwh,
         billedKwh |-> BAdd(consumption, savedKwh)]

\* Lines 323-327: the same under FEWA.
monthFEWA(s, consumption, production) ==
    LET savedKwh == BMin(percentOf(production,
                                   IF batteryEnabled THEN BatterySelfConsumption
                                   ELSE daytimeConsumption),
                         consumption)
    IN  [bank |-> s.netMeteringCreditsKwh,
         billedKwh |-> BSub(consumption, savedKwh)]

\* Lines 303-330: one iteration of the month loop.
simulateMonthOf(s) ==
    LET consumption == consumptionByMonth(s.monthIndex)
        production == monthlyProductionOf(s.year)
        original == calculateBillAmountWithEscalation(consumption, s.year)
        m == IF authority = "DEWA" THEN monthDEWA(s, consumption, production)
             ELSE monthFEWA(s, consumption, production)
        new == calculateBillAmountWithEscalation(m.billedKwh, s.year)
    IN  [s EXCEPT !.monthIndex = s.monthIndex + 1,
                  !.pc = IF s.monthIndex = 11 THEN "yearEnd" ELSE "month",
                  !.monthlyConsumption = consumption,
                  !.monthlyProduction = production,
                  !.originalBill = original,
                  !.netMeteringCreditsKwh = m.bank,
                  !.billedKwh = m.billedKwh,
                  !.newBill = new,
                  !.yearlySavings = EAdd(s.yearlySavings, ESub(original, new))]

\* Line 340: paybackPeriodYears === 0 && cumulativeCashFlow > 0
paybackRecorded(s, cumulative) ==
    paybackIsZero(s.paybackPeriodYears) /\ BLt(BZero, cumulative)

\* Lines 332-343 and the step to the next year: the end of a year.
closeYearOf(s) ==
    LET yearlyCashFlow == BSub(toMoney(s.yearlySavings), annualMaintenanceCost)
        cumulative == BAdd(s.cumulativeCashFlow, yearlyCashFlow)
    IN  [s EXCEPT !.firstYearAnnualSavings =
                      IF s.year = 1 THEN s.yearlySavings ELSE s.firstYearAnnualSavings,
                  !.firstYearBank =
                      IF s.year = 1 THEN s.netMeteringCreditsKwh ELSE s.firstYearBank,
                  !.yearlyCashFlow = yearlyCashFlow,
                  !.cumulativeCashFlow = cumulative,
                  !.paybackPeriodYears =
                      IF paybackRecorded(s, cumulative)
                      THEN [whole |-> s.year - 1,
                            num |-> BAbs(s.cumulativeCashFlow),
                            den |-> yearlyCashFlow]
                      ELSE s.paybackPeriodYears,
                  !.year = s.year + 1,
                  !.monthIndex = 0,
                  !.yearlySavings = EZero,
                  !.pc = IF s.year = SYSTEM_LIFESPAN_YEARS THEN "report" ELSE "month"]

\* Math.round(x) of a plain amount of money
roundMoney(x) == BToInt(BRoundDiv(x, MoneyUnit))

\* paybackPeriodYears > 0 ? Math.round(paybackPeriodYears * 10) / 10 : 0,
\* in tenths of a year
paybackTenths(p) ==
    LET value == BAdd(BMul(BInt(p.whole), p.den), p.num)
    IN  IF value # BZero /\ p.den # BZero /\ value.neg = p.den.neg
        THEN BToInt(BRoundDiv(BMulSmall(BAbs(value), 10), BAbs(p.den)))
        ELSE 0

\* Variant of roi25Year that reports the cumulative cash flow itself.
roi25YearNet(s) == roundMoney(s.cumulativeCashFlow)

\* Line 354: Math.round(cumulativeCashFlow + initialInvestment)
roi25Year(s) == roundMoney(BAdd(s.cumulativeCashFlow, initialInvestment))

\* Lines 346-349
excessProduction ==
    BMax(BZero, BSub(kwhOfInt(annualProduction), BMulSmall(avgMonthlyConsumption, 12)))

netMeteringCreditsValue ==
    LET avgTariff == getAverageRate(avgMonthlyConsumption)
    IN  BToInt(BRoundDiv(BMul(excessProduction, avgTariff.num),
                         BMul(KwhUnit, avgTariff.den)))

\* Lines 351-356: the value passed to setFinancialAnalysis.
reportOf(s) ==
    IF s.pc = "zero" THEN ZeroFinancial
    ELSE [annualSavings |-> roundMoney(toMoney(s.firstYearAnnualSavings)),
          paybackPeriod |-> paybackTenths(s.paybackPeriodYears),
          roi25Year |-> roi25Year(s),
          netMeteringCredits |-> netMeteringCreditsValue]

\* The next n iterations of the month loop from s, by halves of n.
RECURSIVE simulateMonths(_, _)
simulateMonths(s, n) ==
    IF s.pc # "month" \/ n = 0 THEN s
    ELSE IF n = 1 THEN simulateMonthOf(s)
    ELSE simulateMonths(simulateMonths(s, n \div 2), n - n \div 2)

\* The run from s to the end of its year.
simulateYearFrom(s) == simulateMonths(s, Len(months) - s.monthIndex)

\* The next n iterations of the year loop from s, by halves of n.
RECURSIVE simulateYears(_, _)
simulateYears(s, n) ==
    IF s.pc # "month" \/ n = 0 THEN s
    ELSE IF n = 1 THEN closeYearOf(simulateYearFrom(s))
    ELSE simulateYears(simulateYears(s, n \div 2), n - n \div 2)

\* The run from s to the end of the loop.
simulateFrom(s) == simulateYears(s, SYSTEM_LIFESPAN_YEARS + 1 - s.year)

\* The value the financial effect passes to setFinancialAnalysis.
financialEffect == reportOf(simulateFrom(simBegin))

(***************************************************************************)
(* Initial state: the useState initialisers of App; no effect has run yet. *)
(***************************************************************************)
InitSession ==
    /\ authority = "DEWA"
    /\ batteryEnabled = FALSE
    /\ bills = << >>
    /\ rateStructure = "flat"
    /\ electricityRate = 50
    /\ tiers = DefaultTiers
    /\ lastOp = "init"
    /\ lastInput = << >>
    /\ ops = 0
    /\ argConsumption = 0
    /\ resAmount = 0
    /\ argYear = 1
    /\ resEscalated = EZero
    /\ systemCost = << >>
    /\ sim = simIdle

(***************************************************************************)
(* Effects.  seenDeps holds, per effect, the dependency values of the      *)
(* render in which it last ran (<< >> before the first render).  Two       *)
(* ledgers of equal content count as the same dependency: re-running an    *)
(* effect on an equal ledger writes equal values.                          *)
(***************************************************************************)
seasonalDeps == << bills >>

\* Variant of sizingDeps without the seasonal averages.
sizingDepsWithoutSeasonal ==
    << bills, authority, batteryEnabled, daytimeConsumption, peakSunHours,
       systemEfficiency, panelWattage >>

sizingDeps ==
    << bills, authority, batteryEnabled, daytimeConsumption, peakSunHours,
       systemEfficiency, panelWattage,
       seasonalAnalysis.summerAvg, seasonalAnalysis.winterAvg >>

seasonalPending == seenDeps.seasonal # seasonalDeps
\* getAverageRate and calculateBillAmountWithEscalation are re-created when
\* the tariff changes.
financialDeps ==
    << systemCost, bills, systemRecommendation, authority, batteryEnabled,
       daytimeConsumption, tariffVars >>

sizingPending == seenDeps.sizing # sizingDeps
financialPending == seenDeps.financial # financialDeps
effectsPending == seasonalPending \/ sizingPending \/ financialPending

\* One pass of the effects after a render: each effect whose dependencies
\* changed runs on the values of that render.
runEffects ==
    /\ effectsPending
    /\ seasonalAnalysis' =
          IF seasonalPending THEN seasonalEffect(bills) ELSE seasonalAnalysis
    /\ systemRecommendation' =
          IF sizingPending
          THEN sizingEffect(bills, authority, batteryEnabled, daytimeConsumption,
                            peakSunHours, systemEfficiency, panelWattage,
                            seasonalAnalysis)
          ELSE systemRecommendation
    /\ financialAnalysis' =
          IF financialPending THEN financialEffect ELSE financialAnalysis
    /\ seenDeps' = [seasonal |-> seasonalDeps, sizing |-> sizingDeps,
                    financial |-> financialDeps]
    /\ lastOp' = "effects"
    /\ UNCHANGED << configVars, bills, tariffVars, sizingVars, callVars, roiVars,
                    lastInput, ops >>

\* A handler runs when the effects have settled and the session is within
\* its bound.
handlerEnabled == ~effectsPending /\ ops < MaxOps

(***************************************************************************)
(* Handlers of the project configuration and the system parameters.        *)
(***************************************************************************)
\* Variant of setAuthority that leaves the battery flag alone.
setAuthorityKeepingBattery(auth) ==
    /\ handlerEnabled
    /\ authority' = auth
    /\ lastOp' = "setAuthority"
    /\ lastInput' = << >>
    /\ ops' = ops + 1
    /\ UNCHANGED << batteryEnabled, bills, tariffVars, sizingVars, derivedVars, callVars, roiVars >>

\* onClick of the authority buttons.
setAuthority(auth) ==
    /\ handlerEnabled
    /\ authority' = auth
    /\ batteryEnabled' = IF auth = "DEWA" THEN FALSE ELSE batteryEnabled
    /\ lastOp' = "setAuthority"
    /\ lastInput' = << >>
    /\ ops' = ops + 1
    /\ UNCHANGED << bills, tariffVars, sizingVars, derivedVars, callVars, roiVars >>

\* onClick of the battery button, disabled under DEWA.
toggleBattery ==
    /\ handlerEnabled
    /\ authority # "DEWA"
    /\ batteryEnabled' = ~batteryEnabled
    /\ lastOp' = "toggleBattery"
    /\ lastInput' = << >>
    /\ ops' = ops + 1
    /\ UNCHANGED << authority, bills, tariffVars, sizingVars, derivedVars, callVars, roiVars >>

\* onChange of the daytime-use input, rendered under FEWA without battery.
setDaytimeConsumption(value) ==
    /\ handlerEnabled
    /\ authority = "FEWA" /\ ~batteryEnabled
    /\ daytimeConsumption' = value
    /\ lastOp' = "setDaytimeConsumption"
    /\ lastInput' = << >>
    /\ ops' = ops + 1
    /\ UNCHANGED << configVars, bills, tariffVars, peakSunHours, systemEfficiency,
                    panelWattage, derivedVars, callVars, roiVars >>

\* onChange of the system parameter inputs: setter(parseFloat(value) || 0).
setPeakSunHours(value) ==
    /\ handlerEnabled
    /\ peakSunHours' = value
    /\ lastOp' = "setPeakSunHours"
    /\ lastInput' = << >>
    /\ ops' = ops + 1
    /\ UNCHANGED << configVars, bills, tariffVars, daytimeConsumption,
                    systemEfficiency, panelWattage, derivedVars, callVars, roiVars >>

setSystemEfficiency(value) ==
    /\ handlerEnabled
    /\ systemEfficiency' = value
    /\ lastOp' = "setSystemEfficiency"
    /\ lastInput' = << >>
    /\ ops' = ops + 1
    /\ UNCHANGED << configVars, bills, tariffVars, daytimeConsumption,
                    peakSunHours, panelWattage, derivedVars, callVars, roiVars >>

setPanelWattage(value) ==
    /\ handlerEnabled
    /\ panelWattage' = value
    /\ lastOp' = "setPanelWattage"
    /\ lastInput' = << >>
    /\ ops' = ops + 1
    /\ UNCHANGED << configVars, bills, tariffVars, daytimeConsumption,
                    peakSunHours, systemEfficiency, derivedVars, callVars, roiVars >>

(***************************************************************************)
(* Handlers of the tariff configuration.                                   *)
(***************************************************************************)
\* onChange of the system-cost input: setSystemCost(e.target.value)
setSystemCost(value) ==
    /\ handlerEnabled
    /\ Len(bills) > 0
    /\ systemCost' = value
    /\ lastOp' = "setSystemCost"
    /\ ops' = ops + 1
    /\ UNCHANGED << configVars, bills, tariffVars, sizingVars, derivedVars,
                    callVars, sim, lastInput >>

\* Variant of setRateStructure that re-prices the ledger under the new
\* structure.
setRateStructureRepricing(rs) ==
    /\ handlerEnabled
    /\ rateStructure' = rs
    /\ bills' = [i \in 1..Len(bills) |->
                    [bills[i] EXCEPT !.amount =
                        BillAmount(bills[i].consumption, rs, electricityRate, tiers)]]
    /\ lastOp' = "setRateStructure"
    /\ lastInput' = << >>
    /\ ops' = ops + 1
    /\ UNCHANGED << configVars, electricityRate, tiers, sizingVars,
                    derivedVars, callVars, roiVars >>

setRateStructure(rs) ==
    /\ handlerEnabled
    /\ rateStructure' = rs
    /\ lastOp' = "setRateStructure"
    /\ lastInput' = << >>
    /\ ops' = ops + 1
    /\ UNCHANGED << configVars, bills, electricityRate, tiers, sizingVars,
                    derivedVars, callVars, roiVars >>

\* onChange of the flat-rate input: setElectricityRate(parseFloat(value) || 0);
\* rate is the parsed value in hundredths.
setElectricityRate(rate) ==
    /\ handlerEnabled
    /\ rateStructure = "flat"
    /\ electricityRate' = rate
    /\ lastOp' = "setElectricityRate"
    /\ lastInput' = << >>
    /\ ops' = ops + 1
    /\ UNCHANGED << configVars, bills, rateStructure, tiers, sizingVars,
                    derivedVars, callVars, roiVars >>

addTier ==
    /\ handlerEnabled
    /\ rateStructure = "tiered"
    /\ Len(tiers) < MaxTiers
    /\ tiers' = AddTierResult(tiers)
    /\ lastOp' = "addTier"
    /\ lastInput' = << >>
    /\ ops' = ops + 1
    /\ UNCHANGED << configVars, bills, rateStructure, electricityRate, sizingVars,
                    derivedVars, callVars, roiVars >>

\* The `from` input of the first row and the `to` input of the last row are
\* disabled.
updateTier(index, field, numValue) ==
    /\ handlerEnabled
    /\ rateStructure = "tiered"
    /\ index \in 1..Len(tiers)
    /\ field = "from" => index # 1
    /\ field = "to" => index # Len(tiers)
    /\ tiers' = UpdateTierResult(tiers, index, field, numValue)
    /\ lastOp' = "updateTier"
    /\ lastInput' = << >>
    /\ ops' = ops + 1
    /\ UNCHANGED << configVars, bills, rateStructure, electricityRate, sizingVars,
                    derivedVars, callVars, roiVars >>

removeTier(index) ==
    /\ handlerEnabled
    /\ rateStructure = "tiered"
    /\ index \in 1..Len(tiers)
    /\ tiers' = RemoveTierResult(tiers, index)
    /\ lastOp' = "removeTier"
    /\ lastInput' = << >>
    /\ ops' = ops + 1
    /\ UNCHANGED << configVars, bills, rateStructure, electricityRate, sizingVars,
                    derivedVars, callVars, roiVars >>

(***************************************************************************)
(* Handlers of the ledger.                                                 *)
(***************************************************************************)
\* input is the content of the entry box when Add Bills is pressed.
addBills(input) ==
    /\ handlerEnabled
    /\ bills' = AddBillsResult(input)
    /\ lastOp' = "addBills"
    /\ lastInput' = input
    /\ ops' = ops + 1
    /\ UNCHANGED << configVars, tariffVars, sizingVars, derivedVars, callVars, roiVars >>

removeBill(index) ==
    /\ handlerEnabled
    /\ index \in 1..Len(bills)
    /\ bills' = RemoveAt(bills, index)
    /\ lastOp' = "removeBill"
    /\ lastInput' = << >>
    /\ ops' = ops + 1
    /\ UNCHANGED << configVars, tariffVars, sizingVars, derivedVars, callVars, roiVars >>

\* The Clear All button, shown while the ledger is not empty.
clearBills ==
    /\ handlerEnabled
    /\ Len(bills) > 0
    /\ bills' = << >>
    /\ lastOp' = "clearBills"
    /\ lastInput' = << >>
    /\ ops' = ops + 1
    /\ UNCHANGED << configVars, tariffVars, sizingVars, derivedVars, callVars, roiVars >>

\* The handler guards itself, so it is modelled as callable in every state.
handleEstimateFromPartialData ==
    /\ handlerEnabled
    /\ bills' = EstimateResult(bills)
    /\ lastOp' = "handleEstimateFromPartialData"
    /\ lastInput' = << >>
    /\ ops' = ops + 1
    /\ UNCHANGED << configVars, tariffVars, sizingVars, derivedVars, callVars, roiVars >>

(***************************************************************************)
(* The session of ledger and tariff handlers, with the effects that follow *)
(* them.                                                                   *)
(***************************************************************************)
\* Contents of the entry box that the model types.
TxtJan1500 == << "J", "a", "n", "-", "1", "5", "0", "0" >>
TxtJul2500 == << "j", "u", "l", " ", "2", "5", "0", "0" >>
TxtJ900Ju7000 ==
    << "J", "-", "9", "0", "0", ",", "j", "u", "-", "7", "0", "0", "0" >>
TxtJan800JAN700 ==
    << "J", "a", "n", "-", "8", "0", "0", ";", "J", "A", "N", "-", "7", "0", "0" >>
TxtRejected ==
    << "O", "c", "t", "-", "0", "\n", "x", "y", "z", "-", "5", ",",
       "D", "e", "c", "2", "0", "0", "0", ",", "F", "e", "b", "-", "1", ".", "5" >>
TxtMar0M5 == << "M", "a", "r", "-", "0", ",", "m", "5" >>
TxtAug4200 ==
    << " ", "A", "u", "g", " ", "-", " ", "4", "2", "0", "0", " ", ",", ",", " " >>

BillInputs ==
    { TxtJan1500, TxtJul2500, TxtJ900Ju7000, TxtJan800JAN700, TxtRejected,
      TxtMar0M5, TxtAug4200 }

\* Values typed into the tier rows and the flat-rate input.
BoundaryInputs == { 1000, 3000 }
RateInputs == { 0, 45 }

InitDerived ==
    /\ daytimeConsumption = 60
    /\ peakSunHours = 55
    /\ systemEfficiency = 85
    /\ panelWattage = 550
    /\ seasonalAnalysis = ZeroSeasonal
    /\ systemRecommendation = ZeroRecommendation
    /\ financialAnalysis = ZeroFinancial
    /\ seenDeps = [seasonal |-> << >>, sizing |-> << >>, financial |-> << >>]

Init == InitSession /\ InitDerived

Next ==
    \/ \E rs \in {"flat", "tiered"} : setRateStructure(rs)
    \/ \E r \in RateInputs : setElectricityRate(r)
    \/ addTier
    \/ \E i \in 1..MaxTiers, v \in BoundaryInputs : updateTier(i, "from", v)
    \/ \E i \in 1..MaxTiers, v \in BoundaryInputs : updateTier(i, "to", v)
    \/ \E i \in 1..MaxTiers, r \in RateInputs : updateTier(i, "rate", r)
    \/ \E i \in 1..MaxTiers : removeTier(i)
    \/ \E input \in BillInputs : addBills(input)
    \/ \E i \in 1..12 : removeBill(i)
    \/ clearBills
    \/ handleEstimateFromPartialData
    \/ runEffects

Spec == Init /\ [][Next]_vars

(***************************************************************************)
(* Properties of the ledger and tariff session.                            *)
(***************************************************************************)
monthsOf(bs) == { bs[i].month : i \in 1..Len(bs) }

EstimateOp == "handleEstimateFromPartialData"

TariffOps ==
    { "setRateStructure", "setElectricityRate", "addTier", "updateTier", "removeTier" }

\* C1: the ledger never holds two bills with the same month.
C1_NoDuplicateMonths ==
    \A i, j \in 1..Len(bills) : i # j => bills[i].month # bills[j].month

\* addBills has run on a full ledger that mixes typed and estimated bills.
C1_Witness ==
    /\ lastOp = "addBills"
    /\ Len(bills) = 12
    /\ \E i \in 1..Len(bills) : bills[i].isEstimated
    /\ \E i \in 1..Len(bills) : ~bills[i].isEstimated

\* C2: the tier chain always starts at 0, is contiguous, and is unbounded
\* only in its final tier.
C2_TierChainContiguous ==
    /\ tiers[1].from = 0
    /\ \A i \in 1..(Len(tiers) - 1) :
          /\ tiers[i].to # Infinity
          /\ tiers[i].to + 1 = tiers[i + 1].from
    /\ tiers[Len(tiers)].to = Infinity

\* A stable sort of a tier sequence, ascending by `from`.
RECURSIVE insertByFrom(_, _)
insertByFrom(sorted, t) ==
    IF sorted = << >> THEN << t >>
    ELSE IF t.from < sorted[1].from THEN << t >> \o sorted
    ELSE << sorted[1] >> \o insertByFrom(Tail(sorted), t)

RECURSIVE sortedByFrom(_)
sortedByFrom(ts) ==
    IF ts = << >> THEN << >>
    ELSE insertByFrom(sortedByFrom(SubSeq(ts, 1, Len(ts) - 1)), ts[Len(ts)])

ProbeConsumptions == { 500, 3000, 5000, 7000 }

\* C4: the tiered bill does not depend on the order in which the tiers are
\* stored: it is the bill of the tiers sorted ascending by `from`.
C4_OrderInsensitive ==
    \A c \in ProbeConsumptions :
        BillAmount(c, "tiered", electricityRate, tiers)
            = BillAmount(c, "tiered", electricityRate, sortedByFrom(tiers))

\* C6: estimateFullYear leaves a ledger of 0 or 12 bills unchanged, and on a
\* ledger of 1 to 11 bills keeps the month, consumption and amount of every
\* bill that was already there.
C6_EstimateKeepsLedger ==
    [][ lastOp' = EstimateOp =>
          /\ Len(bills) \in {0, 12} => bills' = bills
          /\ Len(bills) \in 1..11 =>
                \A i \in 1..Len(bills) :
                    /\ \E j \in 1..Len(bills') : bills'[j].month = bills[i].month
                    /\ \A j \in 1..Len(bills') :
                          bills'[j].month = bills[i].month =>
                              /\ bills'[j].consumption = bills[i].consumption
                              /\ bills'[j].amount = bills[i].amount ]_vars

\* The estimate has run and left typed bills beside estimated ones, after at
\* least three handlers (so also on a ledger that was already full).
C6_Witness ==
    /\ lastOp = EstimateOp
    /\ ops >= 3
    /\ Len(bills) = 12
    /\ \E i \in 1..Len(bills) : bills[i].isEstimated
    /\ \E i \in 1..Len(bills) : ~bills[i].isEstimated /\ bills[i].consumption > 0

\* round(baseline * multiplier[month]), the baseline being the mean over the
\* bills of consumption / multiplier[bill.month]; summed from the last bill
\* to the first.
expectedConsumption(bs, month) ==
    LET term(i) == Quot(bs[i].consumption * UAE_SEASONAL_FACTORS[month],
                        UAE_SEASONAL_FACTORS[bs[i].month] * Len(bs))
        S[i \in 0..Len(bs)] == IF i = 0 THEN QZero ELSE QAdd(S[i - 1], term(Len(bs) + 1 - i))
    IN  QRound(S[Len(bs)])

\* C7: on a ledger of 1 to 11 bills the estimate yields 12 bills, one per
\* month in calendar order; a bill that was there keeps isEstimated = FALSE;
\* an added bill is estimated, its consumption is the rounded seasonal
\* estimate and its amount is the bill of that rounded consumption.
C7_EstimateFillsYear ==
    [][ (lastOp' = EstimateOp /\ Len(bills) \in 1..11) =>
          /\ Len(bills') = 12
          /\ \A k \in 1..12 :
                /\ bills'[k].month = months[k]
                /\ IF months[k] \in monthsOf(bills)
                   THEN ~bills'[k].isEstimated
                   ELSE /\ bills'[k].isEstimated
                        /\ bills'[k].consumption = expectedConsumption(bills, months[k])
                        /\ bills'[k].amount = calculateBillAmount(bills'[k].consumption) ]_vars

\* The estimate has filled a year around at least two typed bills under the
\* tiered tariff.
C7_Witness ==
    /\ lastOp = EstimateOp
    /\ rateStructure = "tiered"
    /\ Len(bills) = 12
    /\ Cardinality({ i \in 1..Len(bills) : ~bills[i].isEstimated }) >= 2
    /\ \E i \in 1..Len(bills) : bills[i].isEstimated /\ bills[i].amount > 0

\* C8: a change of the tariff configuration leaves every bill, its amount
\* included, as it was.
C8_TariffChangeKeepsBills ==
    [][ lastOp' \in TariffOps => bills' = bills ]_vars

\* A tariff handler has run and the ledger holds a bill whose amount is no
\* longer what the current tariff would charge.
C8_Witness ==
    /\ lastOp \in TariffOps
    /\ \E i \in 1..Len(bills) :
          bills[i].amount # calculateBillAmount(bills[i].consumption)

\* The entries of a text as the parser resolves them: month "" marks an entry
\* that matches no month.
resolvedEntries(input) ==
    LET es == splitEntries(input)
        resolve(e) ==
            LET match == matchEntry(trim(e))
            IN  IF match = << >> THEN [month |-> "", consumption |-> 0]
                ELSE LET mi == findMonthIndex(LowerText(match[1]))
                     IN  [month |-> IF mi = 0 THEN "" ELSE months[mi],
                          consumption |-> parseDigits(match[2])]
    IN  [k \in 1..Len(es) |-> resolve(es[k])]

\* new is old plus, per month absent from old, the first entry among those
\* whose index is in `counting`.
addedFromFirst(old, es, new, counting) ==
    /\ \A i \in 1..Len(old) : \E j \in 1..Len(new) : new[j] = old[i]
    /\ \A i, j \in 1..Len(new) : i # j => new[i].month # new[j].month
    /\ \A j \in 1..Len(new) :
          \/ \E i \in 1..Len(old) : old[i] = new[j]
          \/ /\ new[j].consumption > 0
             /\ \E k \in 1..Len(es) :
                   /\ es[k].month = new[j].month
                   /\ es[k].consumption = new[j].consumption
                   /\ \A k2 \in 1..(k - 1) : es[k2].month = es[k].month => k2 \notin counting

\* C9 as stated: addBills keeps every bill already present, stores for a
\* month that occurs several times in the text only its first occurrence,
\* and stores no bill whose consumption is not > 0.
C9_FirstOccurrenceOfText ==
    [][ lastOp' = "addBills" =>
          LET es == resolvedEntries(lastInput')
          IN  addedFromFirst(bills, es, bills', 1..Len(es)) ]_vars

\* C9 as amended: of the occurrences of a month, the first one whose
\* consumption is > 0 is the one stored.
C9_FirstPositiveOccurrence ==
    [][ lastOp' = "addBills" =>
          LET es == resolvedEntries(lastInput')
          IN  addedFromFirst(bills, es, bills',
                             { k \in 1..Len(es) : es[k].consumption > 0 }) ]_vars

\* addBills has run on a text that names one month twice and has stored a
\* bill beside the bills that were there.
C9_Witness ==
    /\ lastOp = "addBills"
    /\ LET es == resolvedEntries(lastInput)
       IN  \E k1, k2 \in 1..Len(es) :
              k1 < k2 /\ es[k1].month # "" /\ es[k1].month = es[k2].month
    /\ Len(bills) >= 2
    /\ \E i \in 1..Len(bills) : bills[i].month = "January" /\ bills[i].consumption = 800

(***************************************************************************)
(* The tariff calculator on its own: a valid tier chain is drawn, then     *)
(* calculateBillAmount is called on one consumption after another.         *)
(***************************************************************************)
MaxChainLen == 3
MaxBoundary == 5
MaxConsumption == 7

\* Rates of the drawn chains, hundredths of AED per kWh.
ChainRates == { 0, 30, 38 }

\* The chain whose finite upper bounds are tos and whose rates are rates.
chainOf(tos, rates) ==
    [i \in 1..Len(rates) |->
        [from |-> IF i = 1 THEN 0 ELSE tos[i - 1] + 1,
         to   |-> IF i = Len(rates) THEN Infinity ELSE tos[i],
         rate |-> rates[i]]]

\* Every chain of up to MaxChainLen tiers that starts at 0, is contiguous and
\* ascending, and is unbounded in its last tier only.
TierChains ==
    UNION { { chainOf(tos, rates) :
                tos \in { t \in [1..(n - 1) -> 0..MaxBoundary] :
                            \A i \in 1..(n - 2) : t[i] < t[i + 1] },
                rates \in [1..n -> ChainRates] }
            : n \in 1..MaxChainLen }

\* Consumptions around the boundaries of the default chain.
DefaultChainConsumptions == { 1999, 2000, 2001, 4000, 5000, 6000, 6001, 6002 }

ConsumptionInputs == 0..MaxConsumption \cup DefaultChainConsumptions

InitTariff ==
    /\ authority = "DEWA"
    /\ batteryEnabled = FALSE
    /\ bills = << >>
    /\ rateStructure = "tiered"
    /\ electricityRate = 50
    /\ tiers \in TierChains \cup { DefaultTiers }
    /\ lastOp = "init"
    /\ lastInput = << >>
    /\ ops = 0
    /\ argConsumption = 0
    /\ resAmount = 0
    /\ argYear = 1
    /\ resEscalated = EZero
    /\ systemCost = << >>
    /\ sim = simIdle
    /\ InitDerived

\* A call of calculateBillAmount(consumption).
callCalculateBillAmount(consumption) ==
    /\ argConsumption' = consumption
    /\ resAmount' = calculateBillAmount(consumption)
    /\ lastOp' = "calculateBillAmount"
    /\ UNCHANGED << configVars, bills, tariffVars, sizingVars, derivedVars,
                    argYear, resEscalated, roiVars, lastInput, ops >>

NextTariff == \E consumption \in ConsumptionInputs : callCalculateBillAmount(consumption)

SpecTariff == InitTariff /\ [][NextTariff]_vars

\* The number of units of 1..c in the inclusive band of tier i: 1..to for
\* the first tier, from..to for a later one.
unitsInBand(ts, i, c) ==
    Cardinality({ u \in 1..c : /\ (i = 1 \/ u >= ts[i].from)
                               /\ (ts[i].to = Infinity \/ u <= ts[i].to) })

\* The sum over the first k tiers of rate times units[i].
sumOverTiers(ts, k, units) ==
    LET S[i \in 0..k] == IF i = 0 THEN 0 ELSE S[i - 1] + ts[i].rate * units[i]
    IN  S[k]

\* The whole width of the finite tier i.
fullWidth(ts, i) == IF i = 1 THEN ts[i].to ELSE ts[i].to - ts[i].from + 1

\* C3: on a valid chain the tiered bill of c is the sum over the tiers of
\* rate times the units of 1..c in the tier's inclusive band; the default
\* chain bills 5000 units at 1800.00; and at c equal to a tier's `to` the
\* bill is the sum of the full amounts of that tier and the tiers below it.
C3_BillIsSumOverBands ==
    lastOp = "calculateBillAmount" =>
        /\ resAmount = sumOverTiers(tiers, Len(tiers),
                                    [i \in 1..Len(tiers) |->
                                        unitsInBand(tiers, i, argConsumption)])
        /\ (tiers = DefaultTiers /\ argConsumption = 5000) => resAmount = 180000
        /\ \A k \in 1..(Len(tiers) - 1) :
              argConsumption = tiers[k].to =>
                  resAmount = sumOverTiers(tiers, k, [i \in 1..k |-> fullWidth(tiers, i)])

\* The default chain has billed 5000 units.
C3_Witness ==
    /\ lastOp = "calculateBillAmount"
    /\ tiers = DefaultTiers
    /\ argConsumption = 5000
    /\ resAmount = 180000

maxRate(ts) == CHOOSE r \in { ts[i].rate : i \in 1..Len(ts) } :
                   \A i \in 1..Len(ts) : ts[i].rate <= r

\* C5: on a valid chain with non-negative rates a larger consumption never
\* has a smaller bill, and one more unit raises the bill by at most the
\* highest rate of the chain.
C5_BillMonotone ==
    [][ (lastOp' = "calculateBillAmount" /\ argConsumption <= argConsumption') =>
          /\ resAmount <= resAmount'
          /\ argConsumption' = argConsumption + 1 =>
                resAmount' - resAmount <= maxRate(tiers) ]_vars

\* A call has billed the first unit of a band that is cheaper than the band
\* below it.
C5_Witness ==
    /\ lastOp = "calculateBillAmount"
    /\ Len(tiers) = 3
    /\ argConsumption = tiers[2].from
    /\ tiers[2].rate < tiers[1].rate
    /\ resAmount > 0

(***************************************************************************)
(* The sizing session: the ledger, the project configuration and the       *)
(* system parameters, with the effects that follow them.                   *)
(***************************************************************************)
SizingBillInputs == { TxtJan1500, TxtJ900Ju7000 }

\* Values typed into the system parameter inputs.
DaytimeInputs == { 0, 100 }
SunHoursInputs == { 0, 40 }
EfficiencyInputs == { 0, 90 }
WattageInputs == { 0, 400 }

NextSizing ==
    \/ \E input \in SizingBillInputs : addBills(input)
    \/ clearBills
    \/ \E auth \in {"DEWA", "FEWA"} : setAuthority(auth)
    \/ toggleBattery
    \/ \E v \in DaytimeInputs : setDaytimeConsumption(v)
    \/ \E v \in SunHoursInputs : setPeakSunHours(v)
    \/ \E v \in EfficiencyInputs : setSystemEfficiency(v)
    \/ \E v \in WattageInputs : setPanelWattage(v)
    \/ runEffects

SpecSizing == Init /\ [][NextSizing]_vars

coverageFields == { "summerCoverage", "winterCoverage", "annualCoverage" }

\* C10: the three coverages of the system recommendation are numbers of
\* 0..100, whatever the ledger and the sizing parameters.
C10_CoverageWithinRange ==
    \A f \in coverageFields :
        /\ systemRecommendation[f].k = "fin"
        /\ systemRecommendation[f].d = 1
        /\ systemRecommendation[f].n \in 0..100

\* A field of a recommendation is a finite number.
isFinite(x) == x.k = "fin"

recommendationFields ==
    { "systemSize", "panelCount", "spaceRequired", "annualProduction",
      "inverterCapacity", "batteryCapacity", "summerCoverage", "winterCoverage",
      "annualCoverage" }

\* C11: the sizer yields no NaN and no infinity on non-positive inputs: with
\* peakSunHours <= 0 it sizes as if peakSunHours were 1, and with
\* panelWattage <= 0 it yields panelCount = 0.
C11_SizerGuardsNonPositive ==
    (~effectsPending /\ Len(bills) > 0) =>
        /\ \A f \in recommendationFields : isFinite(systemRecommendation[f])
        /\ panelWattage <= 0 => systemRecommendation.panelCount = JInt(0)
        /\ (peakSunHours <= 0 /\ panelWattage > 0) =>
              systemRecommendation.panelCount =
                  sizingEffect(bills, authority, batteryEnabled, daytimeConsumption,
                               10, systemEfficiency, panelWattage,
                               seasonalAnalysis).panelCount

\* C19: the session is never under DEWA with the battery enabled.
C19_NoBatteryUnderDEWA == ~(authority = "DEWA" /\ batteryEnabled)

\* The DEWA button has been pressed in a session whose battery was enabled
\* at the last effect pass.
C19_Witness ==
    /\ lastOp = "setAuthority"
    /\ authority = "DEWA"
    /\ seenDeps.sizing[2] = "FEWA"
    /\ seenDeps.sizing[3] = TRUE
    /\ ~batteryEnabled

(***************************************************************************)
(* The tariff calculator on a chain whose last tier is bounded too.        *)
(***************************************************************************)
\* The chain whose upper bounds are tos, all finite.
cappedChainOf(tos, rates) ==
    [i \in 1..Len(rates) |->
        [from |-> IF i = 1 THEN 0 ELSE tos[i - 1] + 1,
         to   |-> tos[i],
         rate |-> rates[i]]]

\* Every contiguous ascending chain of up to MaxChainLen bounded tiers.
CappedChains ==
    UNION { { cappedChainOf(tos, rates) :
                tos \in { t \in [1..n -> 0..MaxBoundary] :
                            \A i \in 1..(n - 1) : t[i] < t[i + 1] },
                rates \in [1..n -> ChainRates] }
            : n \in 1..MaxChainLen }

InitCapped ==
    /\ authority = "DEWA"
    /\ batteryEnabled = FALSE
    /\ bills = << >>
    /\ rateStructure = "tiered"
    /\ electricityRate = 50
    /\ tiers \in CappedChains
    /\ lastOp = "init"
    /\ lastInput = << >>
    /\ ops = 0
    /\ argConsumption = 0
    /\ resAmount = 0
    /\ argYear = 1
    /\ resEscalated = EZero
    /\ systemCost = << >>
    /\ sim = simIdle
    /\ InitDerived

SpecCapped == InitCapped /\ [][NextTariff]_vars

\* The span of tier i as the calculator measures it.
spanOf(ts, i) == ts[i].to - (IF ts[i].from > 0 THEN ts[i].from - 1 ELSE 0)

\* S: the sum of the spans of the tiers.
spanSum(ts) == sumOverTiers([i \in 1..Len(ts) |-> [rate |-> 1]], Len(ts),
                            [i \in 1..Len(ts) |-> spanOf(ts, i)])

\* C16: on a chain without an unbounded tier a consumption of S or more,
\* S being the sum of the spans, is billed as S: every span at its rate and
\* nothing for the excess.
C16_ExcessUnbilled ==
    (lastOp = "calculateBillAmount"
        /\ (\A i \in 1..Len(tiers) : tiers[i].to # Infinity)
        /\ argConsumption >= spanSum(tiers)) =>
            /\ resAmount = BillAmount(spanSum(tiers), "tiered", electricityRate, tiers)
            /\ resAmount = sumOverTiers(tiers, Len(tiers),
                                        [i \in 1..Len(tiers) |-> spanOf(tiers, i)])

\* A consumption above S has been billed on a chain of two priced tiers.
C16_Witness ==
    /\ lastOp = "calculateBillAmount"
    /\ Len(tiers) >= 2
    /\ \A i \in 1..Len(tiers) : tiers[i].to # Infinity /\ tiers[i].rate > 0
    /\ argConsumption > spanSum(tiers)
    /\ resAmount > 0

(***************************************************************************)
(* The financial effect step by step.  The initial states are sessions at  *)
(* rest on a ledger, a configuration and a tariff, in which a system cost  *)
(* has just been entered and the financial effect starts its run; an       *)
(* action is one iteration of the month loop, the end of a year, or the    *)
(* final setFinancialAnalysis.                                             *)
(***************************************************************************)
FinanceEntries ==
    { << [month |-> "January", consumption |-> 7000],
         [month |-> "July", consumption |-> 900] >>,
      << [month |-> "January", consumption |-> 1500],
         [month |-> "July", consumption |-> 2500] >> }

FinanceConfigs ==
    { [authority |-> "DEWA", batteryEnabled |-> FALSE, daytimeConsumption |-> 60],
      [authority |-> "FEWA", batteryEnabled |-> FALSE, daytimeConsumption |-> 0],
      [authority |-> "FEWA", batteryEnabled |-> FALSE, daytimeConsumption |-> 60],
      [authority |-> "FEWA", batteryEnabled |-> FALSE, daytimeConsumption |-> 100],
      [authority |-> "FEWA", batteryEnabled |-> TRUE, daytimeConsumption |-> 60] }

FinanceTariffs == { "flat", "tiered" }

SystemCostInputs ==
    { << "0" >>, << "2", "0", "0", "0", "0" >>, << "9", "0", "0", "0", "0", "0" >> }

\* The bills addBills stores for the typed entries under the tariff.
ledgerOf(entries, rs, rate, ts) ==
    [i \in 1..Len(entries) |->
        [month       |-> entries[i].month,
         consumption |-> entries[i].consumption,
         amount      |-> BillAmount(entries[i].consumption, rs, rate, ts),
         isEstimated |-> FALSE]]

InitFinance ==
    \E entries \in FinanceEntries, config \in FinanceConfigs,
       rs \in FinanceTariffs, cost \in SystemCostInputs :
        /\ authority = config.authority
        /\ batteryEnabled = config.batteryEnabled
        /\ rateStructure = rs
        /\ electricityRate = 50
        /\ tiers = DefaultTiers
        /\ bills = ledgerOf(entries, rs, 50, DefaultTiers)
        /\ daytimeConsumption = config.daytimeConsumption
        /\ peakSunHours = 55
        /\ systemEfficiency = 85
        /\ panelWattage = 550
        /\ seasonalAnalysis = seasonalEffect(bills)
        /\ systemRecommendation =
               sizingEffect(bills, authority, batteryEnabled, daytimeConsumption,
                            peakSunHours, systemEfficiency, panelWattage,
                            seasonalAnalysis)
        /\ financialAnalysis = ZeroFinancial
        /\ systemCost = cost
        /\ seenDeps = [seasonal |-> seasonalDeps, sizing |-> sizingDeps,
                       financial |-> [financialDeps EXCEPT ![1] = << >>]]
        /\ sim = simBegin
        /\ lastOp = "setSystemCost"
        /\ lastInput = << >>
        /\ ops = 1
        /\ argConsumption = 0
        /\ resAmount = 0
        /\ argYear = 1
        /\ resEscalated = EZero

financeFrame ==
    UNCHANGED << configVars, bills, tariffVars, sizingVars, seasonalAnalysis,
                 systemRecommendation, callVars, systemCost, lastInput, ops >>

simulateMonth ==
    /\ sim.pc = "month"
    /\ sim' = simulateMonthOf(sim)
    /\ lastOp' = "simulateMonth"
    /\ UNCHANGED << financialAnalysis, seenDeps >>
    /\ financeFrame

closeYear ==
    /\ sim.pc = "yearEnd"
    /\ sim' = closeYearOf(sim)
    /\ lastOp' = "closeYear"
    /\ UNCHANGED << financialAnalysis, seenDeps >>
    /\ financeFrame

reportFinancialAnalysis ==
    /\ sim.pc \in { "report", "zero" }
    /\ financialAnalysis' = reportOf(sim)
    /\ seenDeps' = [seenDeps EXCEPT !.financial = financialDeps]
    /\ sim' = [sim EXCEPT !.pc = "done"]
    /\ lastOp' = "reportFinancialAnalysis"
    /\ financeFrame

NextFinance == simulateMonth \/ closeYear \/ reportFinancialAnalysis

SpecFinance == InitFinance /\ [][NextFinance]_vars

(***************************************************************************)
(* The escalated calculator as a pure function: the initial states draw a  *)
(* tariff (a valid chain, or a flat rate), and the only action is a call   *)
(* of calculateBillAmountWithEscalation.                                   *)
(***************************************************************************)
YearInputs == { 1, 2, SYSTEM_LIFESPAN_YEARS }

FlatRateInputs == ChainRates \cup { 50 }

\* Valid chains of one, two and three tiers over the rates of ChainRates,
\* and the default chain.
EscalationChains ==
    { chainOf(<< >>, rates) : rates \in [1..1 -> ChainRates] }
    \cup { chainOf(<< 2 >>, rates) : rates \in [1..2 -> ChainRates] }
    \cup { chainOf(<< 1, 4 >>, rates) : rates \in [1..3 -> ChainRates] }
    \cup { DefaultTiers }

\* Consumptions around the boundaries of the drawn chains.
EscalationConsumptions == { 0, 1, 2, 3, 4, 5, 7, 2000, 2001, 6002 }

InitEscalation ==
    /\ authority = "DEWA"
    /\ batteryEnabled = FALSE
    /\ bills = << >>
    /\ \/ /\ rateStructure = "tiered"
          /\ electricityRate = 50
          /\ tiers \in EscalationChains
       \/ /\ rateStructure = "flat"
          /\ electricityRate \in FlatRateInputs
          /\ tiers = DefaultTiers
    /\ lastOp = "init"
    /\ lastInput = << >>
    /\ ops = 0
    /\ argConsumption = 0
    /\ resAmount = 0
    /\ argYear = 1
    /\ resEscalated = EZero
    /\ systemCost = << >>
    /\ sim = simIdle
    /\ InitDerived

\* A call of calculateBillAmountWithEscalation(consumption, year, 0.02).
callCalculateBillAmountWithEscalation(consumption, year) ==
    /\ argConsumption' = consumption
    /\ argYear' = year
    /\ resEscalated' = calculateBillAmountWithEscalation(kwhOfInt(consumption), year)
    /\ lastOp' = "calculateBillAmountWithEscalation"
    /\ UNCHANGED << configVars, bills, tariffVars, sizingVars, derivedVars,
                    resAmount, roiVars, lastInput, ops >>

NextEscalation ==
    \E consumption \in EscalationConsumptions, year \in YearInputs :
        callCalculateBillAmountWithEscalation(consumption, year)

SpecEscalation == InitEscalation /\ [][NextEscalation]_vars

\* C17: the escalated bill of a consumption in a year is the entry-time bill
\* of that consumption times (1 + e)^(year - 1), for a flat and for a tiered
\* tariff; in year 1 the two calculators return the same amount.
C17_EscalatedIsBillTimesFactor ==
    lastOp = "calculateBillAmountWithEscalation" =>
        /\ resEscalated =
               EMake(kwhOfInt(calculateBillAmount(argConsumption)), argYear - 1)
        /\ argYear = 1 =>
               toMoney(resEscalated) =
                   BMul(BDivSmall(MoneyUnit, 100),
                        BInt(calculateBillAmount(argConsumption)))

\* An escalated call in a later year whose consumption is billed in more
\* than one band at a positive amount.
C17_Witness ==
    /\ lastOp = "calculateBillAmountWithEscalation"
    /\ argYear = SYSTEM_LIFESPAN_YEARS
    /\ rateStructure = "tiered"
    /\ Len(tiers) > 1
    /\ tiers[1].to # Infinity
    /\ argConsumption > tiers[1].to
    /\ tiers[1].rate > 0
    /\ tiers[2].rate > 0
    /\ resEscalated.c # BZero

(***************************************************************************)
(* Properties of the financial simulation.                                 *)
(***************************************************************************)
\* The run reached its year loop: the effect did not return at lines 275-278.
simulated == sim.pc = "done" /\ ~financialReturnsEarly

\* C12: under DEWA, a month whose production covers its consumption adds
\* production - consumption to the credit bank and is billed nothing; any
\* other month takes min(consumption - production, bank) from the bank and
\* is billed the rest of the deficit only.  The bank is never negative, a
\* month is billed energy only when it leaves the bank empty, and the end of
\* a year leaves the bank as it is.
C12_BankDynamics ==
    [][ /\ (authority = "DEWA" /\ sim.pc = "month") =>
              LET bank == sim.netMeteringCreditsKwh
                  production == sim'.monthlyProduction
                  consumption == sim'.monthlyConsumption
                  deficit == BSub(consumption, production)
              IN  /\ production = monthlyProductionOf(sim.year)
                  /\ consumption = consumptionByMonth(sim.monthIndex)
                  /\ IF BLe(consumption, production)
                     THEN /\ sim'.netMeteringCreditsKwh =
                                 BAdd(bank, BSub(production, consumption))
                          /\ sim'.newBill = EZero
                     ELSE /\ sim'.netMeteringCreditsKwh =
                                 BSub(bank, BMin(deficit, bank))
                          /\ sim'.billedKwh = BSub(deficit, BMin(deficit, bank))
                          /\ sim'.newBill =
                                 calculateBillAmountWithEscalation(sim'.billedKwh,
                                                                   sim.year)
                  /\ BLe(BZero, sim'.netMeteringCreditsKwh)
                  /\ BLt(BZero, sim'.billedKwh) => sim'.netMeteringCreditsKwh = BZero
        /\ sim.pc = "yearEnd" =>
              sim'.netMeteringCreditsKwh = sim.netMeteringCreditsKwh ]_vars

\* A month of a later year took part of its deficit from the bank and was
\* billed the rest.
C12_Witness ==
    /\ authority = "DEWA"
    /\ lastOp = "simulateMonth"
    /\ sim.year > 1
    /\ BLt(BZero, sim.billedKwh)
    /\ BLt(sim.billedKwh, BSub(sim.monthlyConsumption, sim.monthlyProduction))
    /\ sim.netMeteringCreditsKwh = BZero

\* C13: the end of a year sets the payback exactly when the cumulative cash
\* flow goes from <= 0 to > 0 in that year, to (year - 1) + |previous
\* cumulative| / yearlyCashFlow; the end of any other year leaves the
\* payback as it is.
C13_PaybackRecordedOnce ==
    [][ sim.pc = "yearEnd" =>
            IF /\ BLe(sim.cumulativeCashFlow, BZero)
               /\ BLt(BZero, sim'.cumulativeCashFlow)
            THEN sim'.paybackPeriodYears =
                     [whole |-> sim.year - 1,
                      num |-> BAbs(sim.cumulativeCashFlow),
                      den |-> sim'.yearlyCashFlow]
            ELSE sim'.paybackPeriodYears = sim.paybackPeriodYears ]_vars

\* C14: the reported roi25Year is the rounded cumulative cash flow at the end
\* of year 25, the investment netted out.
C14_RoiIsNetCashFlow ==
    simulated => financialAnalysis.roi25Year = roundMoney(sim.cumulativeCashFlow)

\* The no-solar bills and the consumption of the twelve months of year 1.
RECURSIVE firstYearBilled(_)
firstYearBilled(monthIndex) ==
    IF monthIndex > 11 THEN EZero
    ELSE EAdd(calculateBillAmountWithEscalation(consumptionByMonth(monthIndex), 1),
              firstYearBilled(monthIndex + 1))

RECURSIVE firstYearConsumption(_)
firstYearConsumption(monthIndex) ==
    IF monthIndex > 11 THEN BZero
    ELSE BAdd(consumptionByMonth(monthIndex), firstYearConsumption(monthIndex + 1))

\* C15: under DEWA the reported net-metering credits are the rounded product
\* of the bank at the end of year 1 and the average effective tariff, the
\* first-year bills over the first-year consumption.
C15_CreditsAreFirstYearBank ==
    (simulated /\ authority = "DEWA") =>
        financialAnalysis.netMeteringCredits =
            BToInt(BRoundDiv(BMul(sim.firstYearBank, firstYearBilled(0).c),
                             BMul(BMulSmall(KwhUnit, 100), firstYearConsumption(0))))

\* C20: in every simulated month the with-solar bill is at most the no-solar
\* bill, and the savings of a year are never negative.
C20_SolarBillNeverHigher ==
    /\ lastOp = "simulateMonth" => ELe(sim.newBill, sim.originalBill)
    /\ BLe(BZero, sim.yearlySavings.c)

\* A month of the last year under FEWA on the tiered tariff, billed a
\* positive amount below its no-solar bill.
C20_Witness ==
    /\ authority = "FEWA"
    /\ rateStructure = "tiered"
    /\ lastOp = "simulateMonth"
    /\ sim.year = SYSTEM_LIFESPAN_YEARS
    /\ sim.newBill # EZero
    /\ sim.newBill # sim.originalBill
    /\ ELe(sim.newBill, sim.originalBill)

(***************************************************************************)
(* The whole session: every input of the calculator changes, and the three *)
(* effects follow.  React runs the pending effects after every render, so  *)
(* the effect pass is weakly fair; the pass is the one step that brings    *)
(* seenDeps up to the dependencies of the render.  The values typed into   *)
(* the system parameter inputs are positive here.                          *)
(***************************************************************************)
MaxSettleOps == 3

SettleBillInputs == { TxtJ900Ju7000 }
SettleDaytimeInputs == { 80 }
SettleSunHoursInputs == { 40 }
SettleEfficiencyInputs == { 90 }
SettleWattageInputs == { 400 }
SettleCostInputs == { << "2", "0", "0", "0", "0" >> }

NextSettle ==
    \/ /\ ops < MaxSettleOps
       /\ \/ \E input \in SettleBillInputs : addBills(input)
          \/ clearBills
          \/ \E auth \in {"DEWA", "FEWA"} : setAuthority(auth)
          \/ toggleBattery
          \/ \E v \in SettleDaytimeInputs : setDaytimeConsumption(v)
          \/ \E v \in SettleSunHoursInputs : setPeakSunHours(v)
          \/ \E v \in SettleEfficiencyInputs : setSystemEfficiency(v)
          \/ \E v \in SettleWattageInputs : setPanelWattage(v)
          \/ \E rs \in {"flat", "tiered"} : setRateStructure(rs)
          \/ \E cost \in SettleCostInputs : setSystemCost(cost)
    \/ runEffects

\* What a pass of the effects does to seenDeps; among the steps of
\* NextSettle only runEffects changes seenDeps.
effectPass ==
    /\ effectsPending
    /\ seenDeps' = [seasonal |-> seasonalDeps, sizing |-> sizingDeps,
                    financial |-> financialDeps]

SpecSettle == Init /\ [][NextSettle]_vars /\ WF_seenDeps(effectPass)

\* The derived values computed from the current inputs alone.
settledSeasonal == seasonalEffect(bills)

settledRecommendation ==
    sizingEffect(bills, authority, batteryEnabled, daytimeConsumption,
                 peakSunHours, systemEfficiency, panelWattage, settledSeasonal)

\* C18: after a change of an input the effects settle, and when no effect is
\* pending seasonalAnalysis, systemRecommendation and financialAnalysis are
\* the values computed from the current inputs.
C18_EffectsSettle ==
    /\ effectsPending ~> ~effectsPending
    /\ [](~effectsPending =>
            /\ seasonalAnalysis = settledSeasonal
            /\ systemRecommendation = settledRecommendation
            /\ financialAnalysis = financialEffect)

\* The session is at rest on a ledger with summer bills and a system cost,
\* after a change of the authority; the financial analysis is not zero.
C18_Witness ==
    /\ ~effectsPending
    /\ lastOp = "effects"
    /\ authority = "FEWA"
    /\ Len(bills) > 0
    /\ seasonalAnalysis.summerAvg > 0
    /\ systemCost # << >>
    /\ financialAnalysis.annualSavings > 0

====
